---- MODULE Spec2Model ----
(***************************************************************************)
(* Model of the IT-support ticket system: the button-driven conversation   *)
(* state machine of /api/chat (services/chat_handler.py,                   *)
(* services/feedback_handler.py, services/request_flow_handler.py, app.py) *)
(* and the ticket routing engine embedded in the persistence layer         *)
(* (db/postgres.py): priority classification, SLA deadline and shift-aware *)
(* round-robin assignment.                                                 *)
(***************************************************************************)
EXTENDS Integers, Sequences, FiniteSets, TLC

VARIABLES
    tickets,      \* the tickets table: sequence of rows, the row id is its index
    techs,        \* the technicians table: technician id -> row
    rules,        \* the priority_rules table: set of rows
    sla,          \* the sla_config table: set of rows
    clock,        \* the database clock (CURRENT_TIMESTAMP), a logical time
    assign_log,   \* history: technician id -> time of its latest assignment
    ev,           \* history: what the latest ledger operation did
    cs,           \* conversation_states[state_key]: the session dictionary
    resp,         \* the response of the latest /api/chat turn
    turn,         \* history: what the latest /api/chat turn did
    nturns,       \* number of /api/chat turns so far
    feedback,     \* the solution_feedback and ticket_feedback tables
    procs,        \* concurrent create_ticket calls: their position and locals
    bk            \* the back-navigation replay experiment

vars == <<tickets, techs, rules, sla, clock, assign_log, ev,
          cs, resp, turn, nturns, feedback, procs, bk>>

ledgerVars == <<tickets, techs, rules, sla, clock, assign_log, ev>>
chatVars == <<cs, resp, turn, nturns, feedback>>

\* Python None / SQL NULL, for a string, a technician id, a time, a row
None == "None"
NoTech == 0
NoTime == 0 - 1
NoRow == [id |-> 0]

(***************************************************************************)
(* Bounds of the model.                                                    *)
(***************************************************************************)
NTech == 2
MaxTickets == 3
MaxClock == 200
MaxTurns == 2
MaxLedgerOps == 4

TechIds == 1..NTech

(***************************************************************************)
(* Wall-clock times of day, in minutes after midnight.                     *)
(***************************************************************************)
T0200 == 120
T0400 == 240
T0700 == 420
T1200 == 720
T1600 == 960
T1900 == 1140
T2330 == 1410
Times == {T0200, T0400, T1200, T1900, T2330}

(***************************************************************************)
(* Priority classification (PostgresDB.determine_priority).                *)
(* A ticket text is represented by the set of keywords that occur in       *)
(* "subject description" lower-cased: the classifier reads the text only   *)
(* through `keyword in text` tests.                                        *)
(***************************************************************************)
Priorities == {"P2", "P3", "P4"}

\* a lookup that ranks an unknown priority above P2
priority_order_unknown_high(p) ==
    CASE p = "P2" -> 3
      [] p = "P3" -> 2
      [] p = "P4" -> 1
      [] OTHER -> 4

\* priority_order.get(p, 0)
priority_order(p) ==
    CASE p = "P2" -> 3
      [] p = "P3" -> 2
      [] p = "P4" -> 1
      [] OTHER -> 0

smart_category_priorities ==
    [c \in {"Network Connection Issues", "Operating System Issues",
            "PC / Laptop / Peripherals / Accessories Issues",
            "Printer / Scanner / Copier Issues"} |->
        CASE c = "Network Connection Issues" -> "P2"
          [] c = "Printer / Scanner / Copier Issues" -> "P4"
          [] OTHER -> "P3"]

\* representatives of the static keyword lists
p2_keywords == {"outage", "urgent"}
p4_keywords == {"question", "minor"}

\* rows of priority_rules a table may hold, from the seeded ones (seed_data.py
\* seeds P2, P3, P4
\* and Critical rules, scoped and unscoped)
RuleUniverse ==
    { [keyword |-> "urgent",   category |-> None,      priority |-> "P2"],
      [keyword |-> "down",     category |-> None,      priority |-> "Critical"],
      [keyword |-> "slow",     category |-> None,      priority |-> "P3"],
      [keyword |-> "question", category |-> None,      priority |-> "P4"],
      [keyword |-> "network",  category |-> "Network", priority |-> "P2"] }

Keywords == {"urgent", "down", "slow", "question", "network", "outage", "minor"}

Categories == {None, "Network Connection Issues",
               "Printer / Scanner / Copier Issues", "Network", "General"}

\* the rules of the table that match the text and are not scoped to
\* another category
MatchingRules(rs, text, category) ==
    { r \in rs : /\ r.keyword \in text
                 /\ ~(r.category # None /\ r.category # category) }

MaxOrder(S) == IF S = {} THEN 0 ELSE CHOOSE n \in S : \A m \in S : m <= n

\* the (max_order, max_priority) pair after the scan of the database rules:
\* a rule replaces the maximum only when its order is strictly greater
RuleScan(rs, text, category) ==
    LET ms == MatchingRules(rs, text, category)
        mo == MaxOrder({priority_order(r.priority) : r \in ms})
        mp == IF mo = 0 THEN None
              ELSE (CHOOSE r \in ms : priority_order(r.priority) = mo).priority
    IN [order |-> mo, priority |-> mp]

\* a classifier in which the static category table has the last word
determine_priority_category_last(rs, text, category) ==
    IF category # None /\ category \in DOMAIN smart_category_priorities
    THEN {smart_category_priorities[category]}
    ELSE IF RuleScan(rs, text, category).priority # None
    THEN {RuleScan(rs, text, category).priority}
    ELSE {"P3"}

\* the set of priorities determine_priority can return; it has two members
\* only where random.choice is reached
determine_priority(rs, text, category) ==
    LET scan == RuleScan(rs, text, category)
        catHit == /\ category # None
                  /\ category \in DOMAIN smart_category_priorities
                  /\ priority_order(smart_category_priorities[category]) > scan.order
        mo == IF catHit THEN priority_order(smart_category_priorities[category])
              ELSE scan.order
        mp == IF catHit THEN smart_category_priorities[category]
              ELSE scan.priority
    IN  IF scan.priority # None /\ scan.order >= 3 THEN {scan.priority}
        ELSE IF (p2_keywords \cap text) # {} /\ mo < 3 THEN {"P2"}
        ELSE IF mp = None /\ (p4_keywords \cap text) # {} THEN {"P4"}
        ELSE IF mp # None THEN {mp}
        ELSE IF category # None THEN {"P3", "P4"}
        ELSE {"P3"}

(***************************************************************************)
(* SLA deadline (PostgresDB.calculate_sla_deadline): now + the hours of    *)
(* the priority's sla_config row, 24 hours when there is no such row.      *)
(* One unit of the logical clock is one hour.                              *)
(***************************************************************************)
DefaultSlaHours == 24

\* the rows of sla_config as seeded (seed_data.py)
SlaUniverse == { [priority |-> "Critical", sla_hours |-> 2],
                 [priority |-> "P2", sla_hours |-> 8],
                 [priority |-> "P3", sla_hours |-> 72],
                 [priority |-> "P4", sla_hours |-> 168] }

\* the longest SLA window of the seeded table
LongestSlaHours == 168

\* the sla_hours of the priority's row, NoTime when there is no row
get_sla_by_priority(tbl, p) ==
    IF \E s \in tbl : s.priority = p
    THEN (CHOOSE s \in tbl : s.priority = p).sla_hours
    ELSE NoTime

calculate_sla_deadline(tbl, p, now) ==
    LET h == get_sla_by_priority(tbl, p)
    IN IF h # NoTime THEN now + h ELSE now + DefaultSlaHours

(***************************************************************************)
(* Shift-aware round robin (get_on_shift_technician_round_robin).          *)
(***************************************************************************)
\* a shift predicate that counts the end of the shift as on shift
OnShiftInclusiveEnd(t, T) ==
    /\ t.active_status = TRUE
    /\ t.shift_start # NoTime
    /\ t.shift_end # NoTime
    /\ \/ (t.shift_start < t.shift_end /\ T >= t.shift_start /\ T <= t.shift_end)
       \/ (t.shift_start > t.shift_end /\ (T >= t.shift_start \/ T <= t.shift_end))

\* the WHERE clause of the query for one technician row at IST time T
OnShift(t, T) ==
    /\ t.active_status = TRUE
    /\ t.shift_start # NoTime
    /\ t.shift_end # NoTime
    /\ \/ (t.shift_start < t.shift_end /\ T >= t.shift_start /\ T < t.shift_end)
       \/ (t.shift_start > t.shift_end /\ (T >= t.shift_start \/ T < t.shift_end))

Candidates(tcs, T) == { i \in DOMAIN tcs : OnShift(tcs[i], T) }

\* MAX(tk.updated_at) over the tickets joined to the technician; NoTime is
\* SQL NULL (no joined ticket)
last_assigned_at(tks, i) ==
    LET S == { tks[k].updated_at : k \in { j \in 1..Len(tks) : tks[j].assigned_to_id = i } }
    IN IF S = {} THEN NoTime ELSE CHOOSE n \in S : \A m \in S : m <= n

\* ORDER BY last_assigned_at ASC NULLS FIRST, t.id ASC
RRBefore(tks, i, j) ==
    LET a == last_assigned_at(tks, i)
        b == last_assigned_at(tks, j)
    IN  \/ a = NoTime /\ b # NoTime
        \/ a = NoTime /\ b = NoTime /\ i <= j
        \/ a # NoTime /\ b # NoTime /\ (a < b \/ (a = b /\ i <= j))

\* the least-loaded selection of get_available_technician:
\* ORDER BY assigned_tickets ASC
get_least_loaded_technician(tks, tcs, T) ==
    LET C == Candidates(tcs, T)
    IN IF C = {} THEN NoTech
       ELSE CHOOSE i \in C : \A j \in C :
                \/ tcs[i].assigned_tickets < tcs[j].assigned_tickets
                \/ (tcs[i].assigned_tickets = tcs[j].assigned_tickets /\ i <= j)

\* ... LIMIT 1
get_on_shift_technician_round_robin(tks, tcs, T) ==
    LET C == Candidates(tcs, T)
    IN IF C = {} THEN NoTech
       ELSE CHOOSE i \in C : \A j \in C : RRBefore(tks, i, j)

(***************************************************************************)
(* Ticket creation (PostgresDB.create_ticket with auto_assign_ticket).     *)
(* `fail` names the database statement that fails, if any; every statement *)
(* runs in its own transaction (execute_one / execute_query), so the       *)
(* statements before the failing one stay committed.                       *)
(***************************************************************************)
FailModes == {"ok", "pre_raise", "insert_raise", "insert_none", "audit_raise",
              "select_raise", "update_raise", "stats_raise", "log_raise"}

\* The row INSERT INTO tickets stores.  sla_deadline is computed by the
\* application from datetime.now() read at clk; created_at and updated_at
\* are not in the column list of the INSERT: the database stamps them when
\* the statement runs, lag clock units later.
NewTicketRow(tks, tbl, clk, lag, prio, category, session_id) ==
    [id |-> Len(tks) + 1,
     priority |-> prio,
     sla_deadline |-> calculate_sla_deadline(tbl, prio, clk),
     created_at |-> clk + lag,
     updated_at |-> clk + lag,
     status |-> "Open",
     assigned_to_id |-> NoTech,
     sla_breached |-> FALSE,
     category |-> category,
     session_id |-> session_id]

\* UPDATE tickets SET assigned_to_id, status = 'In Progress', updated_at
AssignUpdate(tks, id, tech, now) ==
    [tks EXCEPT ![id] = [@ EXCEPT !.assigned_to_id = tech,
                                  !.status = "In Progress",
                                  !.updated_at = now]]

increment_technician_stats(tcs, tech) ==
    [tcs EXCEPT ![tech] = [@ EXCEPT !.assigned_tickets = @ + 1]]

\* The outcome of one create_ticket call: the tables afterwards, the row the
\* call returns (None: nothing returned), whether it raised, whether the
\* technician selection ran and which technician it selected.
create_ticket(tks, tcs, tbl, clk, lag, prio, category, session_id, T, fail) ==
    LET row == NewTicketRow(tks, tbl, clk, lag, prio, category, session_id)
        tks1 == Append(tks, row)
        tech == get_on_shift_technician_round_robin(tks1, tcs, T)
        tks2 == IF tech = NoTech THEN tks1
                ELSE AssignUpdate(tks1, row.id, tech, clk + 1)
        tcs2 == IF tech = NoTech THEN tcs
                ELSE increment_technician_stats(tcs, tech)
        out(k, c, res, r, sel, pk, ch) ==
            [tickets |-> k, techs |-> c, clock |-> clk + 2, result |-> res,
             raised |-> r, selected |-> sel, picked |-> pk, chosen |-> ch]
    IN  CASE fail \in {"pre_raise", "insert_raise"} ->
                out(tks, tcs, NoRow, TRUE, FALSE, NoTech, NoTech)
          [] fail = "insert_none" ->
                out(tks, tcs, NoRow, FALSE, FALSE, NoTech, NoTech)
          [] fail = "audit_raise" ->
                out(tks1, tcs, NoRow, TRUE, FALSE, NoTech, NoTech)
          [] fail = "select_raise" ->
                out(tks1, tcs, row, FALSE, FALSE, NoTech, NoTech)
          [] fail = "update_raise" /\ tech # NoTech ->
                out(tks1, tcs, row, FALSE, TRUE, tech, NoTech)
          [] fail = "stats_raise" /\ tech # NoTech ->
                out(tks2, tcs, row, FALSE, TRUE, tech, tech)
          [] fail = "log_raise" /\ tech # NoTech ->
                out(tks2, tcs2, row, FALSE, TRUE, tech, tech)
          [] OTHER -> out(tks2, tcs2, tks2[row.id], FALSE, TRUE, tech, tech)

\* UPDATE tickets SET status, updated_at (PostgresDB.update_ticket_status)
update_ticket_status(tks, id, status, now) ==
    [tks EXCEPT ![id] = [@ EXCEPT !.status = status, !.updated_at = now]]

\* UPDATE tickets SET sla_breached = true, updated_at WHERE sla_deadline <
\* CURRENT_TIMESTAMP AND sla_breached = false AND status NOT IN (...)
check_and_update_sla_breaches(tks, now) ==
    [k \in 1..Len(tks) |->
        IF /\ tks[k].sla_deadline < now
           /\ tks[k].sla_breached = FALSE
           /\ tks[k].status \notin {"Resolved", "Closed"}
        THEN [tks[k] EXCEPT !.sla_breached = TRUE, !.updated_at = now]
        ELSE tks[k]]

(***************************************************************************)
(* Initial values.                                                         *)
(***************************************************************************)
\* the priority_rules and sla_config tables as seeded
SeedRules == RuleUniverse
SeedSla == SlaUniverse

TechRow(active, start, end) ==
    [active_status |-> active, shift_start |-> start, shift_end |-> end,
     assigned_tickets |-> 0]

\* technician rows: day shift, overnight shift, inactive, no shift set
TechRows == { TechRow(TRUE, T0700, T1600), TechRow(TRUE, T1900, T0400),
              TechRow(FALSE, T1900, T0400), TechRow(TRUE, NoTime, NoTime) }

TechTables == [TechIds -> TechRows]

\* the technician tables of the ledger specification: everybody on the
\* overnight shift, or technician 1 on the day shift
LedgerTechTables ==
    { [i \in TechIds |-> TechRow(TRUE, T1900, T0400)],
      [i \in TechIds |-> IF i = 1 THEN TechRow(TRUE, T0700, T1600)
                                 ELSE TechRow(TRUE, T1900, T0400)] }

\* two technicians on the overnight shift
NightTechs == [i \in TechIds |-> TechRow(TRUE, T1900, T0400)]

\* the assigned_tickets column
Counters(tcs) == [i \in TechIds |-> tcs[i].assigned_tickets]

NoEvent ==
    [op |-> "none", id |-> 0, T |-> NoTime, text |-> {}, category |-> None,
     cands |-> {}, picked |-> NoTech,
     chosen |-> NoTech,
     log |-> [i \in TechIds |-> NoTime],
     counters |-> [i \in TechIds |-> 0], fail |-> "ok",
     selected |-> FALSE, raised |-> FALSE, result |-> NoRow, emails |-> {}]

(***************************************************************************)
(* Ledger operations as actions.                                           *)
(***************************************************************************)
Statuses == {"In Progress", "Resolved"}

\* the texts tickets are created with in the ledger specifications
Texts == { {}, {"urgent"}, {"down"}, {"slow"}, {"question"}, {"network"},
           {"outage"}, {"minor"}, {"down", "slow"}, {"network", "question"} }

\* one create_ticket call, run to completion; lag: the clock units between
\* the application's datetime.now() and the INSERT
CreateTicketAt(text, category, T, fail, lag) ==
    /\ Len(tickets) < MaxTickets
    /\ clock + 2 <= MaxClock
    /\ \E prio \in determine_priority(rules, text, category) :
         \E o \in {create_ticket(tickets, techs, sla, clock, lag, prio, category,
                                 "ledger", T, fail)} :
            /\ tickets' = o.tickets
            /\ techs' = o.techs
            /\ clock' = o.clock
            /\ assign_log' = IF o.chosen # NoTech
                             THEN [assign_log EXCEPT ![o.chosen] = clock + 1]
                             ELSE assign_log
            /\ ev' = [op |-> "create", id |-> Len(tickets) + 1, T |-> T,
                      text |-> text, category |-> category,
                      cands |-> Candidates(techs, T), picked |-> o.picked,
                      chosen |-> o.chosen,
                      log |-> assign_log, counters |-> Counters(techs),
                      fail |-> fail,
                      selected |-> o.selected, raised |-> o.raised,
                      result |-> o.result, emails |-> {}]
    /\ UNCHANGED <<rules, sla>>

\* a call in which the INSERT runs in the clock unit of datetime.now()
CreateTicketWith(text, category, T, fail) ==
    CreateTicketAt(text, category, T, fail, 0)

\* one request to the ticket API outside the chat
LedgerRequest ==
    /\ nturns < MaxLedgerOps
    /\ nturns' = nturns + 1
    /\ UNCHANGED <<cs, resp, turn, feedback, procs, bk>>

LedgerTimes == {T1200, T2330}

\* the failures injected in the ledger specification
LedgerFailModes == {"ok", "update_raise"}

LedgerCreateTicket ==
    /\ \E T \in LedgerTimes, fail \in LedgerFailModes :
         CreateTicketWith({}, None, T, fail)
    /\ LedgerRequest

\* PUT /api/tickets/<id>/status
LedgerUpdateStatus ==
    /\ clock + 1 <= MaxClock
    /\ \E id \in 1..Len(tickets), st \in Statuses :
         /\ tickets' = update_ticket_status(tickets, id, st, clock)
         /\ ev' = [NoEvent EXCEPT !.op = "status", !.id = id]
    /\ clock' = clock + 1
    /\ LedgerRequest
    /\ UNCHANGED <<techs, rules, sla, assign_log>>

\* PUT /api/tickets/<id>/assign (PostgresDB.assign_ticket)
LedgerAssignTicket ==
    /\ clock + 1 <= MaxClock
    /\ \E id \in 1..Len(tickets), tech \in TechIds :
         /\ tickets' = AssignUpdate(tickets, id, tech, clock)
         /\ techs' = increment_technician_stats(techs, tech)
         /\ assign_log' = [assign_log EXCEPT ![tech] = clock]
         /\ ev' = [NoEvent EXCEPT !.op = "assign", !.id = id, !.chosen = tech]
    /\ clock' = clock + 1
    /\ LedgerRequest
    /\ UNCHANGED <<rules, sla>>

\* PostgresDB.check_and_update_sla_breaches
LedgerSlaBreaches ==
    /\ clock + 1 <= MaxClock
    /\ tickets' = check_and_update_sla_breaches(tickets, clock)
    /\ tickets' # tickets
    /\ ev' = [NoEvent EXCEPT !.op = "sla"]
    /\ clock' = clock + 1
    /\ LedgerRequest
    /\ UNCHANGED <<techs, rules, sla, assign_log>>

\* time passes: longer than the longest SLA window
LedgerTimePasses ==
    /\ clock + LongestSlaHours + 1 <= MaxClock
    /\ clock' = clock + LongestSlaHours + 1
    /\ ev' = [NoEvent EXCEPT !.op = "time"]
    /\ UNCHANGED <<tickets, techs, rules, sla, assign_log, chatVars, procs, bk>>

(***************************************************************************)
(* The issue taxonomy (services/ticket_data_service.py over data.json).    *)
(* The catalog of the model: one complete incident path with two issues,   *)
(* a smart category without categories and an item without issues.         *)
(***************************************************************************)
SC_NET == "Network Connection Issues"
SC_OS == "Operating System Issues"
CAT_HW == "Hardware & Connectivity"
TYPE_NET == "Network"
ITEM_PORT == "Network Port"
ITEM_ZOOM == "Zoom Phone"

get_smart_categories(tt) ==
    IF tt = "Incident" THEN {SC_NET, SC_OS} ELSE {}

get_categories(tt, sc) ==
    IF tt = "Incident" /\ sc = SC_NET THEN {CAT_HW} ELSE {}

get_types(tt, sc, cat) ==
    IF get_categories(tt, sc) # {} /\ cat = CAT_HW THEN {TYPE_NET} ELSE {}

get_items(tt, sc, cat, ty) ==
    IF get_types(tt, sc, cat) # {} /\ ty = TYPE_NET
    THEN {ITEM_PORT, ITEM_ZOOM} ELSE {}

\* the issue list of an item: (issue, bot_solution) pairs
issues_data(tt, sc, cat, ty, item) ==
    IF get_items(tt, sc, cat, ty) # {} /\ item = ITEM_PORT
    THEN << [issue |-> "port dead", bot_solution |-> "sol: reseat cable; reboot"],
            [issue |-> "port slow", bot_solution |-> "sol: check duplex"] >>
    ELSE << >>

\* the buttons of get_issues: one per issue plus "Other Issue"; nothing when
\* the item has no issues
get_issues(tt, sc, cat, ty, item) ==
    LET d == issues_data(tt, sc, cat, ty, item)
    IN IF d = << >> THEN {}
       ELSE { <<"select_issue", v>> : v \in {"0", "1"} } \cup {<<"other_issue", "other">>}

\* int(value) of the request value; values that are not numerals raise
IsInt(v) == v \in {"0", "1", "2", "3", "4", "5", "6", "9"}
IntOf(v) ==
    CASE v = "0" -> 0 [] v = "1" -> 1 [] v = "2" -> 2 [] v = "3" -> 3
      [] v = "4" -> 4 [] v = "5" -> 5 [] v = "6" -> 6 [] v = "9" -> 9
      [] OTHER -> 0 - 1
StrOf(n) ==
    CASE n = 0 -> "0" [] n = 1 -> "1" [] n = 2 -> "2" [] n = 3 -> "3"
      [] n = 4 -> "4" [] n = 5 -> "5" [] n = 6 -> "6" [] OTHER -> "9"

\* get_issue_solution: the issue at the index, NoIssue when out of range
NoIssue == [issue |-> None, bot_solution |-> None]
get_issue_solution(tt, sc, cat, ty, item, idx) ==
    LET d == issues_data(tt, sc, cat, ty, item)
    IN IF 0 <= idx /\ idx < Len(d) THEN d[idx + 1] ELSE NoIssue

\* format_solutions_with_feedback: the solution steps of a solution text
SolutionsOf(text) ==
    CASE text = "sol: reseat cable; reboot" -> <<"reseat cable", "reboot">>
      [] text = "sol: check duplex" -> <<"check duplex">>
      [] text = None -> << >>
      [] text = "" -> << >>
      [] OTHER -> <<text>>

(***************************************************************************)
(* The session dictionary (ChatHandler.create_initial_state and the keys   *)
(* the handlers add).  A key that is absent holds the same null value as a *)
(* key that holds None: the handlers read both with dict.get.              *)
(***************************************************************************)
NoIndex == 0 - 1
NoRating == 0 - 1
NoDraft == [present |-> FALSE, category |-> None, subject |-> None,
            description |-> << >>]
NoAgent == [state |-> None, clarification_count |-> 0]
NoFeedback == [i \in {} |-> None]

create_initial_state ==
    [state |-> "initial",
     ticket_type |-> None,
     smart_category |-> None,
     category |-> None,
     type |-> None,
     item |-> None,
     issue_index |-> NoIndex,
     issue_text |-> None,
     bot_solution |-> None,
     free_text_description |-> None,
     issue_history |-> 0,
     navigation_stack |-> << >>,
     \* keys added later
     prepared_ticket |-> NoDraft,
     ticket_id |-> 0,
     solutions_list |-> << >>,
     solution_feedback |-> NoFeedback,
     end_rating |-> NoRating,
     feedback_text |-> None,
     agent_state |-> NoAgent,
     request_category |-> None,
     software_action |-> None,
     access_type |-> None]

(***************************************************************************)
(* Responses.  `kind` names the response text; `buttons` is the set of     *)
(* (action, value) pairs offered.                                          *)
(***************************************************************************)
Resp(kind, state, buttons, text) ==
    [success |-> TRUE, kind |-> kind, state |-> state, buttons |-> buttons,
     show_text_input |-> text, ticket_id |-> 0, go_to_start |-> FALSE,
     create_ticket |-> FALSE, feedback_ready |-> FALSE, returned |-> TRUE]

\* the response of handle_action's except branch
ErrorResp ==
    [Resp("error", "initial", {<<"restart", "restart">>}, FALSE)
        EXCEPT !.success = FALSE]

\* a handler that returned normally, one that raised, and a dispatch that
\* fell through the if-chain without a return
Out(c, r) == [cs |-> c, r |-> r, raised |-> FALSE, tool |-> FALSE]
Raised(c) == [cs |-> c, r |-> ErrorResp, raised |-> TRUE, tool |-> FALSE]
Fell(c) == [cs |-> c, r |-> [ErrorResp EXCEPT !.returned = FALSE, !.kind = "nothing"],
            raised |-> FALSE, tool |-> FALSE]

BackBtn == <<"go_back", "back">>
Btns(action, values) == { <<action, v>> : v \in values }

ticket_type_buttons == Btns("select_ticket_type", {"Incident", "Request"})
request_category_buttons ==
    Btns("select_request_category", {"hardware", "software", "access"})
solved_buttons == {<<"solution_resolved", "yes">>, <<"solution_not_resolved", "no">>}
star_buttons == Btns("submit_rating", {"1", "2", "3", "4", "5"})
                    \cup {<<"skip_rating", "skip">>}

Push(c, level, value) ==
    [c EXCEPT !.navigation_stack = Append(@, <<level, value>>)]

(***************************************************************************)
(* Incident navigation handlers of ChatHandler.                            *)
(***************************************************************************)
_handle_start_keep_session(c) ==
    Out([c EXCEPT !.state = "awaiting_ticket_type"],
        Resp("start", "awaiting_ticket_type", ticket_type_buttons, FALSE))

_handle_start(c) ==
    Out([create_initial_state EXCEPT !.state = "awaiting_ticket_type"],
        Resp("start", "awaiting_ticket_type", ticket_type_buttons, FALSE))

_handle_select_ticket_type(v, c) ==
    IF v = "Request" THEN
        Out([c EXCEPT !.navigation_stack = << <<"ticket_type", "Request">> >>,
                      !.ticket_type = "Request",
                      !.state = "request_category"],
            Resp("request_menu", "request_category",
                 request_category_buttons \cup {BackBtn}, FALSE))
    ELSE IF v = "Incident" THEN
        LET c1 == [c EXCEPT !.navigation_stack = << <<"ticket_type", "Incident">> >>,
                            !.ticket_type = "Incident",
                            !.state = "awaiting_smart_category"]
            m == get_smart_categories("Incident")
        IN IF m = {}
           THEN Out(c1, Resp("no_entries", "initial", {<<"start", "back">>}, FALSE))
           ELSE Out(c1, Resp("menu", "awaiting_smart_category",
                             Btns("select_smart_category", m) \cup {<<"start", "back">>},
                             FALSE))
    ELSE _handle_start(c)

_handle_select_smart_category(v, c) ==
    LET c1 == [Push(c, "smart_category", v) EXCEPT
                   !.smart_category = v, !.state = "awaiting_category"]
        m == get_categories(c1.ticket_type, v)
    IN IF m = {}
       THEN Out(c1, Resp("no_entries", "awaiting_smart_category", {BackBtn}, FALSE))
       ELSE Out(c1, Resp("menu", "awaiting_category",
                         Btns("select_category", m) \cup {BackBtn}, FALSE))

_handle_select_category(v, c) ==
    LET c1 == [Push(c, "category", v) EXCEPT
                   !.category = v, !.state = "awaiting_type"]
        m == get_types(c1.ticket_type, c1.smart_category, v)
    IN IF m = {}
       THEN Out(c1, Resp("no_entries", "awaiting_category", {BackBtn}, FALSE))
       ELSE Out(c1, Resp("menu", "awaiting_type",
                         Btns("select_type", m) \cup {BackBtn}, FALSE))

_handle_select_type(v, c) ==
    LET c1 == [Push(c, "type", v) EXCEPT !.type = v, !.state = "awaiting_item"]
        m == get_items(c1.ticket_type, c1.smart_category, c1.category, v)
    IN IF m = {}
       THEN Out(c1, Resp("no_entries", "awaiting_type", {BackBtn}, FALSE))
       ELSE Out(c1, Resp("menu", "awaiting_item",
                         Btns("select_item", m) \cup {BackBtn}, FALSE))

_handle_select_item(v, c) ==
    LET c1 == [Push(c, "item", v) EXCEPT !.item = v, !.state = "awaiting_issue"]
        m == get_issues(c1.ticket_type, c1.smart_category, c1.category, c1.type, v)
    IN IF m = {}
       THEN Out(c1, Resp("no_entries", "awaiting_issue",
                         {<<"other_issue", "other">>, BackBtn}, FALSE))
       ELSE Out(c1, Resp("menu", "awaiting_issue", m \cup {BackBtn}, FALSE))

_handle_select_issue(v, c) ==
    IF ~IsInt(v) THEN Raised(c)
    ELSE
    LET idx == IntOf(v)
        sd == get_issue_solution(c.ticket_type, c.smart_category, c.category,
                                 c.type, c.item, idx)
    IN IF sd.issue = None
       THEN Out(c, Resp("no_solution", "awaiting_issue",
                        {<<"preview_ticket", "yes">>, BackBtn}, FALSE))
       ELSE Out([Push(c, "issue", StrOf(idx)) EXCEPT
                     !.issue_index = idx,
                     !.issue_text = sd.issue,
                     !.bot_solution = sd.bot_solution,
                     !.state = "showing_solution",
                     !.issue_history = @ + 1,
                     !.solutions_list = SolutionsOf(sd.bot_solution)],
                Resp("solution", "showing_solution", solved_buttons, FALSE))

_handle_other_issue(c) ==
    Out([Push(c, "other_issue", None) EXCEPT !.state = "awaiting_free_text"],
        Resp("describe", "awaiting_free_text", {BackBtn}, TRUE))

(***************************************************************************)
(* Typed messages.  A message is null (JSON null), empty, blank, or one of *)
(* three texts; LONG_MSG stands for a text of more than 100 characters.    *)
(***************************************************************************)
MSG_SLOW == "printer is slow"
MSG_YES == "yes"
LONG_MSG == "long text of 120 characters"
LONG_MSG_100 == "long text cut at 100 characters"
Messages == {None, "", "  ", MSG_SLOW, MSG_YES, LONG_MSG}

\* str.strip()
Strip(m) == IF m = "  " THEN "" ELSE m

\* text[:100]
Prefix100(t) == IF t = LONG_MSG THEN LONG_MSG_100 ELSE t

\* the rule and priority keywords that occur in a text (substring match on
\* the lower-cased text)
KeywordsOf(t) ==
    CASE t = MSG_SLOW -> {"slow"}
      [] t = "port slow" -> {"slow"}
      [] t = LONG_MSG -> {"urgent"}
      [] t = LONG_MSG_100 -> {"urgent"}
      [] OTHER -> {}

(***************************************************************************)
(* The fallback agent (runners/run_agents.py, AgentOrchestrator).  `llm`   *)
(* is what the language model does in this call.                           *)
(***************************************************************************)
MAX_CLARIFICATION_ATTEMPTS == 2
LLMOutcomes == {"answer", "clarify", "escalate", "tool_id", "tool_no_id",
                "no_tool", "raise"}

\* any(word in response for word in ['yes', 'y', ...]) and the negative list:
\* a text with the letter n counts as negative
Affirmative(m) == m \in {MSG_YES, LONG_MSG}
Negative(m) == m \in {MSG_SLOW, LONG_MSG}

_initialize_conversation_state == [state |-> "active", clarification_count |-> 0]

AgentOut(ast, resp_text, escalated, ticket_id, tool, raised) ==
    [conversation_state |-> ast, response |-> resp_text, escalated |-> escalated,
     ticket_id |-> ticket_id, tool |-> tool, raised |-> raised]

\* run_self_service_agent and the bookkeeping that follows it
SelfService(ast, llm) ==
    IF llm = "raise" THEN AgentOut(ast, None, FALSE, 0, FALSE, TRUE)
    ELSE IF llm = "escalate" THEN
        AgentOut([ast EXCEPT !.state = "awaiting_ticket_confirmation"],
                 "agent: ticket preview", FALSE, 0, FALSE, FALSE)
    ELSE IF llm = "empty" THEN
        \* no final response event: final_response keeps its initial ""
        AgentOut(ast, "", FALSE, 0, FALSE, FALSE)
    ELSE IF llm = "clarify" THEN
        LET a1 == [ast EXCEPT !.clarification_count = @ + 1,
                              !.state = "awaiting_clarification"]
        IN AgentOut(a1, "agent: please clarify", FALSE, 0, FALSE, FALSE)
    ELSE AgentOut(ast, "agent: answer", FALSE, 0, FALSE, FALSE)

\* an agent that answers every message and never fails
handle_user_query_always_answers(message, ast0, llm, next_id) ==
    AgentOut(_initialize_conversation_state, "agent: answer", FALSE, 0, FALSE, FALSE)

handle_user_query(message, ast0, llm, next_id) ==
    LET ast == IF ast0.state = None THEN _initialize_conversation_state ELSE ast0
    IN
    IF ast.state = "awaiting_ticket_confirmation" THEN
        IF Affirmative(message) /\ ~Negative(message) THEN
            CASE llm = "raise" -> AgentOut(ast, None, FALSE, 0, FALSE, TRUE)
              [] llm = "tool_id" ->
                    AgentOut([ast EXCEPT !.state = "escalated"],
                             "agent: ticket created", TRUE, next_id, TRUE, FALSE)
              [] llm = "tool_no_id" ->
                    AgentOut([ast EXCEPT !.state = "escalated"],
                             "agent: ticket created", TRUE, 0, TRUE, FALSE)
              [] OTHER ->
                    AgentOut([ast EXCEPT !.state = "escalated"],
                             "agent: ticket created", TRUE, 0, FALSE, FALSE)
        ELSE IF Negative(message) THEN
            AgentOut(_initialize_conversation_state, "agent: cancelled",
                     FALSE, 0, FALSE, FALSE)
        ELSE AgentOut(ast, "agent: reply yes or no", FALSE, 0, FALSE, FALSE)
    ELSE IF ast.state = "awaiting_clarification" THEN
        LET a1 == [ast EXCEPT !.state = "active"]
            o == SelfService(a1, llm)
            remaining == MAX_CLARIFICATION_ATTEMPTS
                            - o.conversation_state.clarification_count
        IN IF llm = "clarify" /\ remaining <= 0
           THEN AgentOut([o.conversation_state EXCEPT
                              !.state = "awaiting_ticket_confirmation"],
                         "agent: ticket preview", FALSE, 0, FALSE, FALSE)
           ELSE o
    ELSE IF ast.clarification_count >= MAX_CLARIFICATION_ATTEMPTS THEN
        IF llm = "raise" THEN AgentOut(ast, None, FALSE, 0, FALSE, TRUE)
        ELSE AgentOut([ast EXCEPT !.state = "awaiting_ticket_confirmation"],
                      "agent: ticket preview", FALSE, 0, FALSE, FALSE)
    ELSE SelfService(ast, llm)

\* search_issues(message, 'Incident')[0]: the best keyword match
search_issues(m) ==
    IF m = MSG_SLOW
    THEN [issue |-> "port slow", bot_solution |-> "sol: check duplex"]
    ELSE NoIssue

(***************************************************************************)
(* Feedback handlers (services/feedback_handler.py).                       *)
(***************************************************************************)
done_buttons == {<<"start", "new">>, <<"end", "done">>}

get_feedback_complete_response(c) ==
    Out(c, [Resp("feedback_complete", "feedback_complete", done_buttons, FALSE)
                EXCEPT !.feedback_ready = TRUE])

\* value is "<index>:<type>"; here a pair, a string without a colon, or null
SolutionHelpfulValues ==
    {<<"1", "helpful">>, <<"2", "not_helpful">>, <<"9", "tried">>,
     <<"x", "helpful">>, <<"nocolon">>, << >>}

\* a handler that keeps the tag of the submitted index only
handle_solution_helpful_single(value, c) ==
    IF value = << >> THEN Raised(c)
    ELSE IF Len(value) # 2 THEN Fell(c)
    ELSE IF ~IsInt(value[1]) THEN Raised(c)
    ELSE Out([c EXCEPT !.solution_feedback =
                  [k \in {IntOf(value[1])} |-> value[2]]],
             Resp("feedback_recorded", c.state, {}, FALSE))

handle_solution_helpful(value, c) ==
    IF value = << >> THEN Raised(c)
    ELSE IF Len(value) # 2 THEN Fell(c)
    ELSE IF ~IsInt(value[1]) THEN Raised(c)
    ELSE LET i == IntOf(value[1])
             old == c.solution_feedback
             new == [k \in DOMAIN old \cup {i} |->
                        IF k = i THEN value[2] ELSE old[k]]
         IN Out([c EXCEPT !.solution_feedback = new],
                Resp("feedback_recorded", c.state, {}, FALSE))

RatingValues == {"0", "3", "5", "9", "abc"}

handle_rating_submit(rating, c) ==
    IF ~IsInt(rating) THEN Raised(c)
    ELSE Out([c EXCEPT !.end_rating = IntOf(rating), !.state = "end_feedback_text"],
             Resp("rating_thanks", "end_feedback_text",
                  {<<"submit_feedback_text", "submit">>, <<"skip_feedback_text", "skip">>},
                  TRUE))

handle_skip_rating(c) ==
    get_feedback_complete_response(
        [c EXCEPT !.end_rating = NoRating, !.state = "feedback_complete"])

handle_feedback_text_submit(text, c) ==
    get_feedback_complete_response(
        [c EXCEPT !.feedback_text = text, !.state = "feedback_complete"])

handle_skip_feedback_text(c) ==
    get_feedback_complete_response(
        [c EXCEPT !.feedback_text = None, !.state = "feedback_complete"])

(***************************************************************************)
(* Request flow handlers (services/request_flow_handler.py).  The keys     *)
(* that only feed the response text (request_item, justification, ...)     *)
(* are left out of the session record.                                     *)
(***************************************************************************)
HardwareItems == {"Laptop", "Other Hardware", "Scanner"}
HARDWARE_BRANDS(item) ==
    IF item = "Laptop" THEN {"HP Laptop", "Other Laptop"} ELSE {}
SoftwareItems == {"Zoom", "Other"}
AccessTypes == {"internet", "shared_folder", "vpn"}
FolderPermissions == {"Read", "Read/Write"}

hardware_buttons == Btns("select_hardware_item", HardwareItems) \cup {BackBtn}
software_action_buttons ==
    Btns("select_software_action", {"install", "remove"}) \cup {BackBtn}
software_item_buttons == Btns("select_software_item", SoftwareItems) \cup {BackBtn}
access_type_buttons == Btns("select_access_type", AccessTypes) \cup {BackBtn}
folder_permission_buttons ==
    Btns("select_folder_permission", FolderPermissions) \cup {BackBtn}

build_request_preview(c) ==
    Out(c, Resp("request_preview", "request_preview",
                {<<"submit_request", "yes">>, <<"start", "no">>}, FALSE))

handle_request_category(v, c) ==
    LET c1 == [Push(c, "request_category", v) EXCEPT !.request_category = v]
    IN CASE v = "hardware" ->
              Out([c1 EXCEPT !.state = "request_hardware_type"],
                  Resp("request_menu", "request_hardware_type", hardware_buttons, FALSE))
         [] v = "software" ->
              Out([c1 EXCEPT !.state = "request_software_action"],
                  Resp("request_menu", "request_software_action",
                       software_action_buttons, FALSE))
         [] v = "access" ->
              Out([c1 EXCEPT !.state = "request_access_type"],
                  Resp("request_menu", "request_access_type", access_type_buttons, FALSE))
         [] OTHER -> Fell([c1 EXCEPT !.state = "request_category"])

handle_hardware_item(v, c) ==
    LET c1 == [Push(c, "request_hardware_type", v) EXCEPT
                   !.state = "request_hardware_brand"]
    IN IF v = "Other Hardware"
       THEN Out(c1, Resp("describe_hardware", "request_hardware_brand", {BackBtn}, TRUE))
       ELSE IF HARDWARE_BRANDS(v) = {}
       THEN build_request_preview([c1 EXCEPT !.state = "request_preview"])
       ELSE Out(c1, Resp("request_menu", "request_hardware_brand",
                         Btns("select_hardware_brand", HARDWARE_BRANDS(v))
                             \cup {BackBtn}, FALSE))

handle_hardware_brand(v, c) ==
    IF v = None THEN Raised(c)
    ELSE IF v = "Other Laptop"
    THEN Out([c EXCEPT !.state = "request_hardware_brand"],
             Resp("describe_hardware", "request_hardware_brand", {BackBtn}, TRUE))
    ELSE build_request_preview(
             [Push(c, "request_hardware_brand", v) EXCEPT !.state = "request_preview"])

handle_software_action(v, c) ==
    Out([Push(c, "request_software_action", v) EXCEPT
             !.software_action = v, !.state = "request_software_type"],
        Resp("request_menu", "request_software_type", software_item_buttons, FALSE))

handle_software_item(v, c) ==
    LET c1 == Push(c, "request_software_type", v)
    IN IF v = "Other"
       THEN Out([c1 EXCEPT !.state = "request_software_type"],
                Resp("describe_software", "request_software_type", {BackBtn}, TRUE))
       ELSE build_request_preview([c1 EXCEPT !.state = "request_preview"])

handle_access_type(v, c) ==
    LET c1 == [Push(c, "request_access_type", v) EXCEPT !.access_type = v]
    IN CASE v = "internet" ->
              Out([c1 EXCEPT !.state = "request_internet_access"],
                  Resp("internet_options", "request_internet_access",
                       {<<"confirm_internet_access", "confirm">>, BackBtn}, FALSE))
         [] v = "shared_folder" ->
              Out([Push(c1, "request_access_folder", v) EXCEPT
                       !.state = "request_shared_folder_path"],
                  Resp("folder_path", "request_shared_folder_path", {BackBtn}, TRUE))
         [] v = "vpn" ->
              build_request_preview(
                  [Push(c1, "request_access_vpn", "vpn") EXCEPT
                       !.state = "request_preview"])
         [] OTHER -> Fell(c1)

handle_internet_access_confirm(c) ==
    build_request_preview(
        [Push(c, "request_internet_confirm", "confirm") EXCEPT
             !.state = "request_preview"])

handle_shared_folder_path(folder_path, c) ==
    Out([Push(c, "request_folder_path", folder_path) EXCEPT
             !.state = "request_shared_folder_permission"],
        Resp("folder_permission", "request_shared_folder_permission",
             folder_permission_buttons, FALSE))

handle_folder_permission(v, c) ==
    build_request_preview(
        [Push(c, "request_folder_permission", v) EXCEPT !.state = "request_preview"])

handle_vpn_reason(reason, c) ==
    build_request_preview([c EXCEPT !.state = "request_preview"])

handle_justification(justification, c) ==
    build_request_preview([c EXCEPT !.state = "request_preview"])

handle_submit_request(c) ==
    Out([c EXCEPT !.state = "request_complete"],
        Resp("request_submitted", "request_complete", done_buttons, FALSE))

handle_check_approval(c) ==
    Out([c EXCEPT !.state = "manager_approved"],
        Resp("request_approved", "manager_approved", done_buttons, FALSE))

(***************************************************************************)
(* Free text, solution and ticket handlers of ChatHandler.                 *)
(***************************************************************************)
OutTool(c, r, tool) == [cs |-> c, r |-> r, raised |-> FALSE, tool |-> tool]

offer_ticket_buttons == {<<"preview_ticket", "yes">>, <<"decline_ticket", "no">>}

_handle_free_text_fallback(message, c) ==
    LET best == search_issues(message)
    IN IF best.issue # None
       THEN Out([c EXCEPT !.bot_solution = best.bot_solution,
                          !.state = "showing_solution",
                          !.solutions_list = SolutionsOf(best.bot_solution)],
                Resp("solution", "showing_solution", solved_buttons, FALSE))
       ELSE Out([c EXCEPT !.state = "awaiting_ticket_confirmation"],
                Resp("offer_ticket", "awaiting_ticket_confirmation",
                     {<<"preview_ticket", "yes">>, <<"go_back", "no">>}, FALSE))

_handle_free_text(msg, c, llm, next_id) ==
    IF msg = None THEN Raised(c)
    ELSE
    LET message == Strip(msg) IN
    IF message = "" THEN
        Out(c, Resp("describe", "awaiting_free_text", {BackBtn}, TRUE))
    ELSE IF c.state = "request_justification" THEN handle_justification(message, c)
    ELSE IF c.state = "request_vpn_reason" THEN handle_vpn_reason(message, c)
    ELSE IF c.state = "request_shared_folder_path"
        THEN handle_shared_folder_path(message, c)
    ELSE IF c.state = "request_software_type"
        THEN build_request_preview([c EXCEPT !.state = "request_preview"])
    ELSE IF c.state = "end_feedback_text" THEN handle_feedback_text_submit(message, c)
    ELSE
    LET c1 == [c EXCEPT !.free_text_description = message,
                        !.issue_text = message,
                        !.issue_history = @ + 1]
        a == handle_user_query(message, c1.agent_state, llm, next_id)
    IN IF a.raised THEN
           \* the agent works on the stored dictionary in place: what it
           \* wrote before raising stays
           _handle_free_text_fallback(message,
               [c1 EXCEPT !.agent_state =
                    IF @.state = None THEN @ ELSE a.conversation_state])
       ELSE
       LET c2 == [c1 EXCEPT !.agent_state = a.conversation_state,
                            !.issue_history = @ + 1]
       IN IF a.escalated \/ a.ticket_id # 0 THEN
              IF a.ticket_id # 0 THEN
                  OutTool([c2 EXCEPT !.state = "ticket_created"],
                          [Resp("agent_ticket", "ticket_created", done_buttons, FALSE)
                               EXCEPT !.ticket_id = a.ticket_id],
                          a.tool)
              ELSE
                  OutTool([c2 EXCEPT !.state = "awaiting_ticket_confirmation"],
                          Resp("offer_ticket", "awaiting_ticket_confirmation",
                               offer_ticket_buttons, FALSE),
                          a.tool)
          ELSE
              Out([c2 EXCEPT !.bot_solution = a.response,
                             !.state = "showing_solution",
                             !.solutions_list = SolutionsOf(a.response)],
                  Resp("solution", "showing_solution", solved_buttons, FALSE))

\* the collaborators _handle_free_text calls, in call order: the agent
\* inside the try block, the keyword search in the except branch
free_text_calls(msg, c, llm, next_id) ==
    IF msg = None \/ Strip(msg) = "" THEN << >>
    ELSE IF c.state \in {"request_justification", "request_vpn_reason",
                         "request_shared_folder_path", "request_software_type",
                         "end_feedback_text"} THEN << >>
    ELSE IF handle_user_query(Strip(msg), c.agent_state, llm, next_id).raised
    THEN <<"agent", "search">>
    ELSE <<"agent">>

_handle_solution_resolved(c) ==
    Out([c EXCEPT !.state = "end_rating"],
        Resp("rate", "end_rating", star_buttons, FALSE))

_handle_solution_not_resolved(c) ==
    Out([c EXCEPT !.state = "awaiting_ticket_confirmation"],
        Resp("offer_ticket", "awaiting_ticket_confirmation",
             {<<"preview_ticket", "yes">>, BackBtn, <<"end", "no">>}, FALSE))

_handle_agent_continue(c) ==
    Out([c EXCEPT !.state = "awaiting_free_text"],
        Resp("describe", "awaiting_free_text",
             {<<"preview_ticket", "ticket">>, BackBtn}, TRUE))

\* the description is the list of its parts
Description(issue_text, free_text, bot_solution) ==
    LET p1 == IF issue_text \notin {None, ""}
              THEN << <<"Issue", issue_text>> >> ELSE << >>
        p2 == IF free_text \notin {None, ""} /\ free_text # issue_text
              THEN << <<"Additional Details", free_text>> >> ELSE << >>
        p3 == IF bot_solution \notin {None, ""}
              THEN << <<"Solution Attempted", bot_solution>> >> ELSE << >>
        parts == p1 \o p2 \o p3
    IN IF parts # << >> THEN parts
       ELSE << <<"", "User requested support">> >>

_handle_preview_ticket(c) ==
    LET draft == [present |-> TRUE,
                  category |-> c.smart_category,
                  subject |-> IF c.issue_text \notin {None, ""}
                              THEN Prefix100(c.issue_text)
                              ELSE "Support Request",
                  description |-> Description(c.issue_text,
                                              c.free_text_description,
                                              c.bot_solution)]
    IN Out([c EXCEPT !.prepared_ticket = draft,
                     !.state = "awaiting_ticket_confirmation"],
           Resp("preview", "awaiting_ticket_confirmation",
                {<<"confirm_ticket", "yes">>, <<"decline_ticket", "no">>}, FALSE))

\* ticket_data of the confirm response: the draft, with the defaults for a
\* missing draft
ticket_data(c) ==
    IF c.prepared_ticket.present
    THEN [category |-> c.prepared_ticket.category,
          subject |-> c.prepared_ticket.subject,
          description |-> c.prepared_ticket.description]
    ELSE [category |-> "General", subject |-> "Support Request",
          description |-> << <<"", "User requested support">> >>]

_handle_confirm_ticket(c) ==
    Out([c EXCEPT !.state = "ticket_created"],
        [Resp("confirm", "ticket_created", {}, FALSE) EXCEPT !.create_ticket = TRUE])

\* a decline that leaves the session in a state of its own
_handle_decline_ticket_declined(c) ==
    Out([c EXCEPT !.state = "declined"],
        Resp("declined", "declined", done_buttons, FALSE))

_handle_decline_ticket(c) ==
    Out([c EXCEPT !.state = "completed"],
        Resp("declined", "completed", done_buttons, FALSE))

_handle_end(c) ==
    Out([c EXCEPT !.state = "completed"],
        Resp("goodbye", "completed", {<<"start", "new">>}, FALSE))

(***************************************************************************)
(* Back navigation (ChatHandler._handle_go_back, _handle_request_go_back). *)
(***************************************************************************)
GoToStart(c) ==
    Out(c, [Resp("go_to_start", c.state, {}, FALSE) EXCEPT !.go_to_start = TRUE])

level_order == <<"ticket_type", "smart_category", "category", "type", "item",
                 "issue", "other_issue">>
LevelIndex(level) == CHOOSE k \in 1..Len(level_order) : level_order[k] = level

IsRequestLevel(level) ==
    level \in {"request_category", "request_hardware_type", "request_hardware_brand",
               "request_software_action", "request_software_type",
               "request_access_type", "request_access_folder", "request_access_vpn",
               "request_internet_confirm", "request_folder_path",
               "request_folder_permission"}

_handle_request_go_back(prev_level, prev_value, c) ==
    CASE prev_level \in {"ticket_type", "request_category"} ->
            Out([c EXCEPT !.state = "request_category"],
                Resp("request_menu", "request_category",
                     request_category_buttons \cup {BackBtn}, FALSE))
      [] prev_level = "request_hardware_type" ->
            Out([c EXCEPT !.state = "request_hardware_type"],
                Resp("request_menu", "request_hardware_type", hardware_buttons, FALSE))
      [] prev_level = "request_hardware_brand" ->
            Out([c EXCEPT !.state = "request_hardware_brand"],
                Resp("request_menu", "request_hardware_brand",
                     Btns("select_hardware_brand", HARDWARE_BRANDS(prev_value))
                         \cup {BackBtn}, FALSE))
      [] prev_level = "request_software_action" ->
            Out([c EXCEPT !.state = "request_software_action"],
                Resp("request_menu", "request_software_action",
                     software_action_buttons, FALSE))
      [] prev_level = "request_software_type" ->
            Out([c EXCEPT !.state = "request_software_type"],
                Resp("request_menu", "request_software_type",
                     software_item_buttons, FALSE))
      [] prev_level = "request_access_type" ->
            Out([c EXCEPT !.state = "request_access_type"],
                Resp("request_menu", "request_access_type", access_type_buttons, FALSE))
      [] prev_level = "request_access_folder" ->
            Out([c EXCEPT !.state = "request_shared_folder_path"],
                Resp("folder_path", "request_shared_folder_path", {BackBtn}, TRUE))
      [] prev_level = "request_folder_path" ->
            Out([c EXCEPT !.state = "request_shared_folder_permission"],
                Resp("folder_permission", "request_shared_folder_permission",
                     folder_permission_buttons, FALSE))
      [] prev_level \in {"request_internet_confirm", "request_access_vpn",
                         "request_folder_permission"} ->
            Out([c EXCEPT !.state = "request_access_type"],
                Resp("request_menu", "request_access_type", access_type_buttons, FALSE))
      [] OTHER -> GoToStart(c)

\* the fields of the levels after level k are reset
ClearAfter(c, k) ==
    [c EXCEPT !.smart_category = IF k < 2 THEN None ELSE @,
              !.category = IF k < 3 THEN None ELSE @,
              !.type = IF k < 4 THEN None ELSE @,
              !.item = IF k < 5 THEN None ELSE @,
              !.issue_index = IF k < 6 THEN NoIndex ELSE @,
              !.issue_text = IF k < 6 THEN None ELSE @,
              !.bot_solution = IF k < 6 THEN None ELSE @]

\* a go_back that always returns to the start menu
_handle_go_back_to_start(c) == GoToStart(c)

_handle_go_back(c) ==
    IF Len(c.navigation_stack) <= 1 THEN GoToStart(c)
    ELSE
    LET nav == SubSeq(c.navigation_stack, 1, Len(c.navigation_stack) - 1)
        c1 == [c EXCEPT !.navigation_stack = nav]
        prev_level == nav[Len(nav)][1]
        prev_value == nav[Len(nav)][2]
    IN
    IF IsRequestLevel(prev_level)
          \/ (prev_level = "ticket_type" /\ prev_value = "Request")
    THEN _handle_request_go_back(prev_level, prev_value, c1)
    ELSE
    LET c2 == ClearAfter(c1, LevelIndex(prev_level))
    IN CASE prev_level = "ticket_type" ->
              Out([c2 EXCEPT !.state = "awaiting_smart_category"],
                  Resp("menu", "awaiting_smart_category",
                       Btns("select_smart_category", get_smart_categories("Incident"))
                           \cup {<<"start", "back">>}, FALSE))
         [] prev_level = "smart_category" ->
              Out([c2 EXCEPT !.state = "awaiting_category"],
                  Resp("menu", "awaiting_category",
                       Btns("select_category",
                            get_categories(c2.ticket_type, c2.smart_category))
                           \cup {BackBtn}, FALSE))
         [] prev_level = "category" ->
              Out([c2 EXCEPT !.state = "awaiting_type"],
                  Resp("menu", "awaiting_type",
                       Btns("select_type",
                            get_types(c2.ticket_type, c2.smart_category, c2.category))
                           \cup {BackBtn}, FALSE))
         [] prev_level = "type" ->
              Out([c2 EXCEPT !.state = "awaiting_item"],
                  Resp("menu", "awaiting_item",
                       Btns("select_item",
                            get_items(c2.ticket_type, c2.smart_category,
                                      c2.category, c2.type))
                           \cup {BackBtn}, FALSE))
         [] prev_level = "item" ->
              Out([c2 EXCEPT !.state = "awaiting_issue"],
                  Resp("menu", "awaiting_issue",
                       get_issues(c2.ticket_type, c2.smart_category, c2.category,
                                  c2.type, c2.item)
                           \cup {BackBtn}, FALSE))
         [] OTHER -> GoToStart(c2)

(***************************************************************************)
(* ChatHandler.handle_action: the dispatch on the action name.  `value`,   *)
(* `msg` are the request's value and message, `llm` the language model's   *)
(* behaviour if the agent is called.                                       *)
(***************************************************************************)
KnownActions ==
    {"start", "restart", "select_ticket_type", "select_smart_category",
     "select_category", "select_type", "select_item", "select_issue",
     "other_issue", "free_text", "solution_resolved", "solution_not_resolved",
     "agent_continue", "preview_ticket", "confirm_ticket", "decline_ticket",
     "go_back", "end", "select_request_category", "select_hardware_item",
     "select_hardware_brand", "select_software_action", "select_software_item",
     "select_access_type", "confirm_internet_access", "select_folder_permission",
     "submit_request", "check_approval", "solution_helpful", "submit_rating",
     "skip_rating", "submit_feedback_text", "skip_feedback_text"}

handle_action(action, value, msg, c, llm, next_id) ==
    CASE action \in {"start", "restart"} -> _handle_start(c)
      [] action = "select_ticket_type" -> _handle_select_ticket_type(value, c)
      [] action = "select_smart_category" -> _handle_select_smart_category(value, c)
      [] action = "select_category" -> _handle_select_category(value, c)
      [] action = "select_type" -> _handle_select_type(value, c)
      [] action = "select_item" -> _handle_select_item(value, c)
      [] action = "select_issue" -> _handle_select_issue(value, c)
      [] action = "other_issue" -> _handle_other_issue(c)
      [] action = "free_text" -> _handle_free_text(msg, c, llm, next_id)
      [] action = "solution_resolved" -> _handle_solution_resolved(c)
      [] action = "solution_not_resolved" -> _handle_solution_not_resolved(c)
      [] action = "agent_continue" -> _handle_agent_continue(c)
      [] action = "preview_ticket" -> _handle_preview_ticket(c)
      [] action = "confirm_ticket" -> _handle_confirm_ticket(c)
      [] action = "decline_ticket" -> _handle_decline_ticket(c)
      [] action = "go_back" -> _handle_go_back(c)
      [] action = "end" -> _handle_end(c)
      [] action = "select_request_category" -> handle_request_category(value, c)
      [] action = "select_hardware_item" -> handle_hardware_item(value, c)
      [] action = "select_hardware_brand" -> handle_hardware_brand(value, c)
      [] action = "select_software_action" -> handle_software_action(value, c)
      [] action = "select_software_item" -> handle_software_item(value, c)
      [] action = "select_access_type" -> handle_access_type(value, c)
      [] action = "confirm_internet_access" -> handle_internet_access_confirm(c)
      [] action = "select_folder_permission" -> handle_folder_permission(value, c)
      [] action = "submit_request" -> handle_submit_request(c)
      [] action = "check_approval" -> handle_check_approval(c)
      [] action = "solution_helpful" -> handle_solution_helpful(value, c)
      [] action = "submit_rating" -> handle_rating_submit(value, c)
      [] action = "skip_rating" -> handle_skip_rating(c)
      [] action = "submit_feedback_text" -> handle_feedback_text_submit(msg, c)
      [] action = "skip_feedback_text" -> handle_skip_feedback_text(c)
      [] OTHER -> _handle_start(c)

(***************************************************************************)
(* POST /api/chat (app.py, chat): one request of the session SESSION.      *)
(***************************************************************************)
SESSION == "s1"
Http500 ==
    [success |-> FALSE, kind |-> "http_500", state |-> None,
     buttons |-> {<<"start", "restart">>}, show_text_input |-> FALSE,
     ticket_id |-> 0, status |-> 500]

\* response_data as returned with status 200
Finalize(r) ==
    [success |-> r.success, kind |-> r.kind, state |-> r.state,
     buttons |-> r.buttons, show_text_input |-> r.show_text_input,
     ticket_id |-> r.ticket_id, status |-> 200]

\* the session and the response a served start request leaves
StartSession == [create_initial_state EXCEPT !.state = "awaiting_ticket_type"]
StartResponse ==
    Finalize(Resp("start", "awaiting_ticket_type", ticket_type_buttons, FALSE))

request_text_states ==
    {"awaiting_free_text", "request_justification", "request_vpn_reason",
     "request_shared_folder_path", "request_software_type", "end_feedback_text"}

\* the action the request is handled as
EffectiveAction(action, msg, c) ==
    IF action \in {None, ""} /\ msg \notin {None, ""} /\ c.state \in request_text_states
    THEN "free_text"
    ELSE IF action \in {None, ""} THEN "start"
    ELSE action

\* typed text: a free_text action, or a message sent without an action
TextualInput(action, msg) ==
    \/ action = "free_text"
    \/ action \in {None, ""} /\ msg \notin {None, ""}

\* the keywords of a ticket's subject and description
TicketText(td) ==
    KeywordsOf(td.subject)
        \cup UNION { KeywordsOf(td.description[k][2]) : k \in 1..Len(td.description) }

\* PostgresDB.save_all_feedback: the rows it inserts
FeedbackRow(kind, ticket_id, index, text, type, rating, feedback_text) ==
    [kind |-> kind, ticket_id |-> ticket_id, session_id |-> SESSION,
     index |-> index, text |-> text, type |-> type, rating |-> rating,
     feedback_text |-> feedback_text]

solution_text(shown, index) ==
    IF index > Len(shown) THEN ""
    ELSE IF index >= 1 THEN shown[index]
    ELSE IF Len(shown) + index >= 1 THEN shown[Len(shown) + index]
    ELSE ""

save_all_feedback(c) ==
    LET idxs == SelectSeq(<<0, 1, 2, 3, 4, 5, 6, 9>>,
                          LAMBDA i : i \in DOMAIN c.solution_feedback)
        sol == [k \in 1..Len(idxs) |->
                   FeedbackRow("solution", c.ticket_id, idxs[k],
                               solution_text(c.solutions_list, idxs[k]),
                               c.solution_feedback[idxs[k]], NoRating, None)]
        wanted == c.end_rating # NoRating \/ c.feedback_text \notin {None, ""}
        \* CHECK (rating >= 1 AND rating <= 5): the insert of another rating
        \* raises and is logged
        accepted == c.end_rating = NoRating \/ (1 <= c.end_rating /\ c.end_rating <= 5)
        tf == IF wanted /\ accepted
              THEN << FeedbackRow("ticket", c.ticket_id, 0, None, None,
                                  c.end_rating, c.feedback_text) >>
              ELSE << >>
    IN sol \o tf

rate_response(id) ==
    [Resp("ticket_created", "end_rating", star_buttons, FALSE) EXCEPT !.ticket_id = id]

\* the turn's record: what was asked, in which state, and what it did;
\* not_resolved: the turn answered a shown solution with
\* solution_not_resolved; declined: the session has declined the ticket
\* offered right after that and no ticket was created since; textual: the
\* request was typed text (a free_text action, or a message and no action);
\* returned: handle_action returned a response dictionary; raised: a
\* handler raised in this turn; prev_raised: one raised in the turn before
TurnRecord(action, textual, returned, raised, prev, made, by_agent, status, saved) ==
    [action |-> action, textual |-> textual, returned |-> returned,
     raised |-> raised, prev_raised |-> turn.raised,
     prev_state |-> prev.state,
     had_draft |-> prev.prepared_ticket.present,
     created |-> made, by_agent |-> by_agent, status |-> status,
     feedback_saved |-> saved,
     not_resolved |-> (action = "solution_not_resolved"
                         /\ prev.state = "showing_solution"),
     declined |-> /\ made = 0
                  /\ \/ turn.declined
                     \/ (action = "decline_ticket" /\ turn.not_resolved)]

NoTurn ==
    [action |-> None, textual |-> FALSE, returned |-> TRUE, raised |-> FALSE,
     prev_raised |-> FALSE, prev_state |-> None,
     had_draft |-> FALSE, created |-> 0,
     by_agent |-> FALSE, status |-> 0, feedback_saved |-> 0,
     not_resolved |-> FALSE, declined |-> FALSE]

\* the outcome when db.create_ticket is not called
NoCreate ==
    [tickets |-> tickets, techs |-> techs, clock |-> clock, result |-> NoRow,
     raised |-> FALSE, selected |-> FALSE, picked |-> NoTech, chosen |-> NoTech]

\* The notification block of chat() after a ticket was returned: the
\* creation email with the assignment and the technician's email when the
\* ticket came back assigned, the plain creation email otherwise.  fail =
\* "notify_raise": the email service raises.  raised: the exception leaves
\* the block.
send_ticket_emails_unguarded(ticket, fail) ==
    [emails |-> IF fail = "notify_raise" THEN {}
                ELSE IF ticket.assigned_to_id # NoTech
                THEN {"created_with_assignment", "technician_assignment"}
                ELSE {"created"},
     raised |-> fail = "notify_raise"]

send_ticket_emails(ticket, fail) ==
    [emails |-> IF fail = "notify_raise" THEN {}
                ELSE IF ticket.assigned_to_id # NoTech
                THEN {"created_with_assignment", "technician_assignment"}
                ELSE {"created"},
     raised |-> FALSE]

NoEmails == [emails |-> {}, raised |-> FALSE]

\* The feedback block of chat(): db.save_all_feedback under try/except.
\* fail = "feedback_raise": the call raises before it wrote a row.
persist_feedback(c, fail) ==
    [rows |-> IF fail = "feedback_raise" THEN << >> ELSE save_all_feedback(c),
     raised |-> FALSE]

\* One request.  action, value, msg: the request's fields; llm: what the
\* language model does if asked; fail, T: how and when db.create_ticket runs
\* if called; conv: whether the final save_conversation raises.
ChatTurn(action_in, value, msg, llm, fail, T, conv) ==
    LET action == EffectiveAction(action_in, msg, cs)
        next_id == Len(tickets) + 1
    IN
    \E h1 \in {handle_action(action, value, msg, cs, llm, next_id)} :
    \E h \in {IF h1.r.returned /\ h1.r.go_to_start
              THEN handle_action("start", None, None, h1.cs, llm, next_id)
              ELSE h1} :
    LET td == ticket_data(h.cs)
        category == IF h.tool THEN "Other" ELSE td.category
        text == IF h.tool THEN {} ELSE TicketText(td)
        creates == h.r.returned /\ (h.tool \/ h.r.create_ticket)
    IN
    /\ creates => (Len(tickets) < MaxTickets /\ clock + 2 <= MaxClock)
    /\ \E prio \in (IF creates THEN determine_priority(rules, text, category)
                    ELSE {"P3"}) :
       \E o \in {IF creates
                 THEN create_ticket(tickets, techs, sla, clock, 0, prio, category,
                                    IF h.tool THEN None ELSE SESSION, T,
                                    IF h.tool THEN "ok" ELSE fail)
                 ELSE NoCreate} :
        \E mail \in {IF h.r.returned /\ h.r.create_ticket /\ ~o.raised
                          /\ o.result.id # 0
                       THEN send_ticket_emails(o.result, fail) ELSE NoEmails} :
        LET made == Len(o.tickets) - Len(tickets)
            failed == \/ ~h.r.returned
                      \/ (h.r.create_ticket /\ o.raised)
                      \/ mail.raised
        IN
        \* the session and the handler response after the ticket step
        \E after \in {
                IF ~h.r.create_ticket \/ ~h.r.returned THEN [c |-> h.cs, r |-> h.r]
                ELSE IF o.raised THEN [c |-> h.cs, r |-> h.r]
                ELSE IF o.result.id # 0
                THEN [c |-> [h.cs EXCEPT !.ticket_id = o.result.id,
                                         !.state = "end_rating"],
                      r |-> rate_response(o.result.id)]
                ELSE [c |-> h.cs,
                      r |-> [Resp("create_failed", h.cs.state,
                                  {<<"preview_ticket", "retry">>, <<"start", "back">>},
                                  FALSE) EXCEPT !.success = FALSE]]} :
        \E fb \in {IF ~failed /\ after.r.feedback_ready
                   THEN persist_feedback(after.c, fail)
                   ELSE [rows |-> << >>, raised |-> FALSE]} :
        \E rows \in {fb.rows} :
        /\ cs' = after.c
        /\ feedback' = feedback \o rows
        /\ resp' = IF failed \/ fb.raised \/ conv THEN Http500
                   ELSE Finalize(after.r)
        /\ turn' = TurnRecord(action, TextualInput(action_in, msg),
                              h.r.returned, h.raised, cs, made, h.tool,
                              IF failed \/ fb.raised \/ conv THEN 500 ELSE 200,
                              Len(rows))
        /\ nturns' = nturns + 1
        /\ IF creates
           THEN /\ tickets' = o.tickets
                /\ techs' = o.techs
                /\ clock' = o.clock
                /\ assign_log' = IF o.chosen # NoTech
                                 THEN [assign_log EXCEPT ![o.chosen] = clock + 1]
                                 ELSE assign_log
                /\ ev' = [op |-> "create", id |-> next_id, T |-> T,
                          text |-> text, category |-> category,
                          cands |-> Candidates(techs, T), picked |-> o.picked,
                          chosen |-> o.chosen,
                          log |-> assign_log, counters |-> Counters(techs),
                          fail |-> IF h.tool THEN "ok" ELSE fail,
                          selected |-> o.selected, raised |-> o.raised,
                          result |-> o.result, emails |-> mail.emails]
           ELSE /\ UNCHANGED <<tickets, techs, clock, assign_log>>
                /\ ev' = NoEvent
    /\ UNCHANGED <<rules, sla, procs>>

(***************************************************************************)
(* The requests a client can send: one action per inbound action name.     *)
(* A client is not bound to the buttons it was shown.                      *)
(***************************************************************************)
ChatTimes == {T1200, T0400}

\* a request that reaches neither the agent nor db.create_ticket
Req(action, value, msg) ==
    /\ nturns < MaxTurns
    /\ \E conv \in BOOLEAN : ChatTurn(action, value, msg, "answer", "ok", T1200, conv)
    /\ UNCHANGED bk

\* a request that may reach the agent
ReqAgent(action, msg) ==
    /\ nturns < MaxTurns
    /\ \E llm \in LLMOutcomes, conv \in BOOLEAN :
         ChatTurn(action, None, msg, llm, "ok", T1200, conv)
    /\ UNCHANGED bk

ChatStart == \E a \in {"start", "restart"} : Req(a, None, None)
ChatSelectTicketType ==
    \E v \in {"Incident", "Request", "Other"} : Req("select_ticket_type", v, None)
ChatSelectSmartCategory ==
    \E v \in {SC_NET, SC_OS} : Req("select_smart_category", v, None)
ChatSelectCategory ==
    \E v \in {CAT_HW, "Unknown"} : Req("select_category", v, None)
ChatSelectType == \E v \in {TYPE_NET} : Req("select_type", v, None)
ChatSelectItem == \E v \in {ITEM_PORT, ITEM_ZOOM} : Req("select_item", v, None)
ChatSelectIssue == \E v \in {"0", "1", "9", "abc"} : Req("select_issue", v, None)
ChatOtherIssue == Req("other_issue", "other", None)
ChatFreeText == \E m \in Messages : ReqAgent("free_text", m)
ChatSolutionResolved == Req("solution_resolved", "yes", None)
ChatSolutionNotResolved == Req("solution_not_resolved", "no", None)
ChatAgentContinue == Req("agent_continue", None, None)
ChatPreviewTicket == Req("preview_ticket", "yes", None)
ChatConfirmTicket ==
    /\ nturns < MaxTurns
    /\ \E fail \in FailModes, T \in ChatTimes, conv \in BOOLEAN :
         ChatTurn("confirm_ticket", "yes", None, "answer", fail, T, conv)
    /\ UNCHANGED bk
ChatDeclineTicket == Req("decline_ticket", "no", None)
ChatGoBack == Req("go_back", "back", None)
ChatEnd == Req("end", "done", None)
ChatSelectRequestCategory ==
    \E v \in {"hardware", "software", "access", "other"} :
        Req("select_request_category", v, None)
ChatSelectHardwareItem ==
    \E v \in HardwareItems : Req("select_hardware_item", v, None)
ChatSelectHardwareBrand ==
    \E v \in {"HP Laptop", "Other Laptop", None} :
        Req("select_hardware_brand", v, None)
ChatSelectSoftwareAction ==
    \E v \in {"install", "remove"} : Req("select_software_action", v, None)
ChatSelectSoftwareItem ==
    \E v \in SoftwareItems : Req("select_software_item", v, None)
ChatSelectAccessType ==
    \E v \in AccessTypes \cup {"other"} : Req("select_access_type", v, None)
ChatConfirmInternetAccess == Req("confirm_internet_access", "confirm", None)
ChatSelectFolderPermission ==
    \E v \in {"Read"} : Req("select_folder_permission", v, None)
ChatSubmitRequest == Req("submit_request", "yes", None)
ChatCheckApproval == Req("check_approval", None, None)
ChatSolutionHelpful ==
    \E v \in SolutionHelpfulValues : Req("solution_helpful", v, None)
ChatSubmitRating == \E v \in RatingValues : Req("submit_rating", v, None)
ChatSkipRating == Req("skip_rating", "skip", None)
ChatSubmitFeedbackText ==
    \E m \in {None, "", MSG_SLOW} : Req("submit_feedback_text", "submit", m)
ChatSkipFeedbackText == Req("skip_feedback_text", "skip", None)
ChatUnknownAction ==
    \E a \in {"bogus", "Start"}, v \in {None, "yes"} : Req(a, v, None)
\* a request without an action: a typed message, or nothing at all
ChatMessageOnly == \E m \in Messages : ReqAgent(None, m)
\* POST /api/chat/reset: the session is dropped; the next request starts a
\* new one
ChatReset ==
    /\ nturns < MaxTurns
    /\ cs' = create_initial_state
    /\ resp' = [Http500 EXCEPT !.success = TRUE, !.kind = "reset", !.status = 200,
                               !.buttons = {}]
    /\ turn' = [NoTurn EXCEPT !.action = "reset", !.prev_state = cs.state,
                              !.status = 200]
    /\ nturns' = nturns + 1
    /\ ev' = NoEvent
    /\ UNCHANGED <<tickets, techs, rules, sla, clock, assign_log, feedback, procs, bk>>

\* technician 1 on the day shift, the others on the overnight shift
ChatTechs ==
    [i \in TechIds |-> IF i = 1 THEN TechRow(TRUE, T0700, T1600)
                       ELSE TechRow(TRUE, T1900, T0400)]

NoResp == [Http500 EXCEPT !.success = TRUE, !.kind = "none", !.status = 0,
                          !.buttons = {}]

InitChat ==
    /\ cs = create_initial_state
    /\ resp = NoResp
    /\ turn = NoTurn
    /\ nturns = 0
    /\ feedback = << >>

IdleChat == InitChat
IdleProcs == procs = << >> /\ bk = << >>

Init ==
    /\ tickets = << >>
    /\ techs = ChatTechs
    /\ rules = SeedRules
    /\ sla = SeedSla
    /\ clock = 1
    /\ assign_log = [i \in TechIds |-> NoTime]
    /\ ev = NoEvent
    /\ InitChat
    /\ IdleProcs

Next ==
    \/ ChatStart
    \/ ChatSelectTicketType
    \/ ChatSelectSmartCategory
    \/ ChatSelectCategory
    \/ ChatSelectType
    \/ ChatSelectItem
    \/ ChatSelectIssue
    \/ ChatOtherIssue
    \/ ChatFreeText
    \/ ChatSolutionResolved
    \/ ChatSolutionNotResolved
    \/ ChatAgentContinue
    \/ ChatPreviewTicket
    \/ ChatConfirmTicket
    \/ ChatDeclineTicket
    \/ ChatGoBack
    \/ ChatEnd
    \/ ChatSelectRequestCategory
    \/ ChatSelectHardwareItem
    \/ ChatSelectHardwareBrand
    \/ ChatSelectSoftwareAction
    \/ ChatSelectSoftwareItem
    \/ ChatSelectAccessType
    \/ ChatConfirmInternetAccess
    \/ ChatSelectFolderPermission
    \/ ChatSubmitRequest
    \/ ChatCheckApproval
    \/ ChatSolutionHelpful
    \/ ChatSubmitRating
    \/ ChatSkipRating
    \/ ChatSubmitFeedbackText
    \/ ChatSkipFeedbackText
    \/ ChatUnknownAction
    \/ ChatMessageOnly
    \/ ChatReset

Spec == Init /\ [][Next]_vars

(***************************************************************************)
(* The ticket ledger on its own: creations, status updates, manual         *)
(* assignments and SLA breach updates in any order, for every technician   *)
(* table.                                                                  *)
(***************************************************************************)
InitLedger ==
    /\ tickets = << >>
    /\ techs \in LedgerTechTables
    /\ rules = SeedRules
    /\ sla = SeedSla
    /\ clock = 1
    /\ assign_log = [i \in TechIds |-> NoTime]
    /\ ev = NoEvent
    /\ IdleChat
    /\ IdleProcs

\* creations alone, for every technician table and every time of day
ShiftCreateTicket ==
    /\ \E T \in Times : CreateTicketWith({}, None, T, "ok")
    /\ UNCHANGED <<chatVars, procs, bk>>

InitShift ==
    /\ tickets = << >>
    /\ techs \in TechTables
    /\ rules = SeedRules
    /\ sla = SeedSla
    /\ clock = 1
    /\ assign_log = [i \in TechIds |-> NoTime]
    /\ ev = NoEvent
    /\ IdleChat
    /\ IdleProcs

SpecShift == InitShift /\ [][ShiftCreateTicket]_vars

NextLedger ==
    \/ LedgerCreateTicket
    \/ LedgerUpdateStatus
    \/ LedgerAssignTicket
    \/ LedgerSlaBreaches
    \/ LedgerTimePasses

SpecLedger == InitLedger /\ [][NextLedger]_vars

(***************************************************************************)
(* Ticket creation under every content of the priority_rules and           *)
(* sla_config tables.                                                      *)
(***************************************************************************)
MaxClassified == 1

InitPriority ==
    /\ tickets = << >>
    /\ techs = NightTechs
    /\ rules \in SUBSET RuleUniverse
    /\ sla \in SUBSET SlaUniverse
    /\ clock = 1
    /\ assign_log = [i \in TechIds |-> NoTime]
    /\ ev = NoEvent
    /\ IdleChat
    /\ IdleProcs

PriorityCreateTicket ==
    /\ Len(tickets) < MaxClassified
    /\ \E text \in Texts, category \in Categories :
         CreateTicketWith(text, category, T2330, "ok")
    /\ UNCHANGED <<chatVars, procs, bk>>

SpecPriority == InitPriority /\ [][PriorityCreateTicket]_vars

(***************************************************************************)
(* Ticket creation with time passing inside create_ticket: the deadline is *)
(* computed from the application's clock before the INSERT, the creation   *)
(* timestamp is the database's at the INSERT.                              *)
(***************************************************************************)
MaxLag == 1
Lags == 0..MaxLag

InitSla ==
    /\ tickets = << >>
    /\ techs = NightTechs
    /\ rules = SeedRules
    /\ sla \in SUBSET SlaUniverse
    /\ clock = 1
    /\ assign_log = [i \in TechIds |-> NoTime]
    /\ ev = NoEvent
    /\ IdleChat
    /\ IdleProcs

SlaCreateTicket ==
    /\ Len(tickets) < MaxClassified
    /\ \E text \in Texts, category \in Categories, lag \in Lags :
         CreateTicketAt(text, category, T2330, "ok", lag)
    /\ UNCHANGED <<chatVars, procs, bk>>

SpecSla == InitSla /\ [][SlaCreateTicket]_vars

(***************************************************************************)
(* Longer sessions over the requests around a shown solution, the ticket   *)
(* offer and the closing feedback.                                         *)
(***************************************************************************)
MaxFeedbackTurns == 5

FbReq(action, value, msg) ==
    /\ nturns < MaxFeedbackTurns
    /\ ChatTurn(action, value, msg, "answer", "ok", T1200, FALSE)
    /\ UNCHANGED bk

FbStart == FbReq("start", None, None)
FbFreeText == FbReq("free_text", None, MSG_SLOW)
FbSolutionNotResolved == FbReq("solution_not_resolved", "no", None)
FbConfirmTicket == FbReq("confirm_ticket", "yes", None)
FbDeclineTicket == FbReq("decline_ticket", "no", None)
FbEnd == FbReq("end", "done", None)
FbSubmitRating == \E v \in {"5", "9", "abc"} : FbReq("submit_rating", v, None)
FbSkipRating == FbReq("skip_rating", "skip", None)
FbSubmitFeedbackText ==
    \E m \in {"", MSG_SLOW} : FbReq("submit_feedback_text", "submit", m)
FbSkipFeedbackText == FbReq("skip_feedback_text", "skip", None)

NextFeedback ==
    \/ FbStart
    \/ FbFreeText
    \/ FbSolutionNotResolved
    \/ FbConfirmTicket
    \/ FbDeclineTicket
    \/ FbEnd
    \/ FbSubmitRating
    \/ FbSkipRating
    \/ FbSubmitFeedbackText
    \/ FbSkipFeedbackText

SpecFeedback == Init /\ [][NextFeedback]_vars

(***************************************************************************)
(* Back navigation: a session walks a path of the incident taxonomy by the *)
(* buttons it is shown, presses go_back some number of times, replays the  *)
(* selections it went back over, and asks for the ticket preview.          *)
(* bk.sel: the selections of the path; bk.n: go_back presses; bk.k:        *)
(* selections replayed.                                                    *)
(***************************************************************************)
SelectionActions ==
    {"select_ticket_type", "select_smart_category", "select_category",
     "select_type", "select_item", "select_issue", "other_issue"}

BackReq(action, value) ==
    ChatTurn(action, value, None, "answer", "ok", T1200, FALSE)

BackStart ==
    /\ bk.phase = "new"
    /\ BackReq("start", None)
    /\ bk' = [bk EXCEPT !.phase = "forward"]

BackSelect ==
    /\ bk.phase = "forward"
    /\ \E b \in resp.buttons :
         /\ b[1] \in SelectionActions
         /\ b[2] # "Request"
         /\ BackReq(b[1], b[2])
         /\ bk' = [bk EXCEPT !.sel = Append(@, b)]

BackGoBack ==
    /\ bk.phase \in {"forward", "back"}
    /\ bk.n < Len(bk.sel)
    /\ BackReq("go_back", "back")
    /\ bk' = [bk EXCEPT !.phase = "back", !.n = @ + 1]

BackReplay ==
    /\ bk.phase \in {"back", "replay"}
    /\ bk.k < bk.n
    /\ LET b == bk.sel[Len(bk.sel) - bk.n + bk.k + 1]
       IN BackReq(b[1], b[2])
    /\ bk' = [bk EXCEPT !.phase = "replay", !.k = @ + 1]

BackPreview ==
    /\ \/ bk.phase = "forward" /\ bk.sel # << >>
       \/ bk.phase = "replay" /\ bk.k = bk.n
    /\ BackReq("preview_ticket", "yes")
    /\ bk' = [bk EXCEPT !.phase = "previewed"]

InitBack ==
    /\ tickets = << >>
    /\ techs = ChatTechs
    /\ rules = SeedRules
    /\ sla = SeedSla
    /\ clock = 1
    /\ assign_log = [i \in TechIds |-> NoTime]
    /\ ev = NoEvent
    /\ InitChat
    /\ procs = << >>
    /\ bk = [phase |-> "new", sel |-> << >>, n |-> 0, k |-> 0]

NextBack ==
    \/ BackStart
    \/ BackSelect
    \/ BackGoBack
    \/ BackReplay
    \/ BackPreview

SpecBack == InitBack /\ [][NextBack]_vars

(***************************************************************************)
(* Flows with per-solution feedback: a solution is shown, its steps are    *)
(* tagged, and the flow ends by the rating stage, by decline_ticket or by  *)
(* end.  bk records what the client sent in the current flow (from a start *)
(* to the next): tags[i] is the pair of the last two tags submitted for    *)
(* index i; saves counts the turns that wrote feedback rows; base is the   *)
(* length of the feedback tables when the flow began.                      *)
(***************************************************************************)
MaxSolutionTurns == 8

SolutionIndexes == {"1", "2"}
SolutionTags == {"tried", "helpful", "not_helpful"}
NoTags == [i \in {} |-> <<None, None>>]
NewFlow(base) == [tags |-> NoTags, saves |-> 0, base |-> base]

Tagged(tags, i, tag) ==
    [k \in DOMAIN tags \cup {i} |->
        IF k # i THEN tags[k]
        ELSE IF i \in DOMAIN tags THEN <<tags[i][2], tag>>
        ELSE <<None, tag>>]

SolReq(action, value, msg) ==
    /\ nturns < MaxSolutionTurns
    /\ ChatTurn(action, value, msg, "answer", "ok", T1200, FALSE)
    /\ bk' = IF action = "start" THEN NewFlow(Len(feedback))
             ELSE [bk EXCEPT
                     !.tags = IF action = "solution_helpful"
                              THEN Tagged(@, IntOf(value[1]), value[2])
                              ELSE @,
                     !.saves = IF turn'.feedback_saved > 0 THEN @ + 1 ELSE @]

\* the client follows the flow it is shown; it may repeat the request that
\* closed the rating stage
FlowEnded == cs.state \in {"completed", "feedback_complete"}
RatingStage == cs.state \in {"end_rating", "end_feedback_text", "feedback_complete"}

SolStart == FlowEnded /\ SolReq("start", None, None)
SolOtherIssue ==
    cs.state = "awaiting_ticket_type" /\ SolReq("other_issue", "other", None)
SolFreeText ==
    cs.state = "awaiting_free_text" /\ SolReq("free_text", None, MSG_SLOW)
SolSolutionHelpful ==
    /\ cs.state = "showing_solution"
    /\ \E i \in SolutionIndexes, tag \in SolutionTags :
         SolReq("solution_helpful", <<i, tag>>, None)
SolSolutionResolved ==
    cs.state = "showing_solution" /\ SolReq("solution_resolved", "yes", None)
SolSolutionNotResolved ==
    cs.state = "showing_solution" /\ SolReq("solution_not_resolved", "no", None)
SolDeclineTicket ==
    cs.state = "awaiting_ticket_confirmation" /\ SolReq("decline_ticket", "no", None)
SolEnd ==
    /\ cs.state \in {"showing_solution", "awaiting_ticket_confirmation"}
    /\ SolReq("end", "done", None)
SolSkipRating == RatingStage /\ SolReq("skip_rating", "skip", None)
SolSkipFeedbackText == RatingStage /\ SolReq("skip_feedback_text", "skip", None)

InitSolutions ==
    /\ tickets = << >>
    /\ techs = ChatTechs
    /\ rules = SeedRules
    /\ sla = SeedSla
    /\ clock = 1
    /\ assign_log = [i \in TechIds |-> NoTime]
    /\ ev = NoEvent
    /\ cs = StartSession
    /\ resp = StartResponse
    /\ turn = [NoTurn EXCEPT !.action = "start", !.prev_state = "initial",
                             !.status = 200]
    /\ nturns = 0
    /\ feedback = << >>
    /\ procs = << >>
    /\ bk = NewFlow(0)

NextSolutions ==
    \/ SolStart
    \/ SolOtherIssue
    \/ SolFreeText
    \/ SolSolutionHelpful
    \/ SolSolutionResolved
    \/ SolSolutionNotResolved
    \/ SolDeclineTicket
    \/ SolEnd
    \/ SolSkipRating
    \/ SolSkipFeedbackText

SpecSolutions == InitSolutions /\ [][NextSolutions]_vars

(***************************************************************************)
(* The incident flow from start to a confirmed ticket: the client walks    *)
(* the taxonomy by the buttons it is shown, takes the first issue, answers *)
(* solution_not_resolved, asks for the preview and confirms.  bk.step      *)
(* counts the requests of PathActions already served.  The technicians     *)
(* table is any table; after the INSERT any statement of create_ticket may *)
(* fail.                                                                   *)
(***************************************************************************)
PathActions ==
    <<"start", "select_ticket_type", "select_smart_category", "select_category",
      "select_type", "select_item", "select_issue", "solution_not_resolved",
      "preview_ticket", "confirm_ticket">>

PathFailModes == FailModes \ {"pre_raise", "insert_raise", "insert_none"}

PathReq(action, value, fail, T) ==
    /\ bk.step < Len(PathActions)
    /\ action = PathActions[bk.step + 1]
    /\ ChatTurn(action, value, None, "answer", fail, T, FALSE)
    /\ bk' = [bk EXCEPT !.step = @ + 1]

PathStart == PathReq("start", None, "ok", T1200)

PathSelect ==
    \E b \in resp.buttons :
        /\ b[1] \in SelectionActions
        /\ b[1] = "select_ticket_type" => b[2] = "Incident"
        /\ b[1] = "select_issue" => b[2] = "0"
        /\ PathReq(b[1], b[2], "ok", T1200)

PathAnswer ==
    \E b \in resp.buttons :
        /\ b[1] \in {"solution_not_resolved", "preview_ticket"}
        /\ PathReq(b[1], b[2], "ok", T1200)

PathConfirm ==
    \E b \in resp.buttons, fail \in PathFailModes, T \in Times :
        /\ b[1] = "confirm_ticket"
        /\ PathReq(b[1], b[2], fail, T)

InitPath ==
    /\ tickets = << >>
    /\ techs \in TechTables
    /\ rules = SeedRules
    /\ sla = SeedSla
    /\ clock = 1
    /\ assign_log = [i \in TechIds |-> NoTime]
    /\ ev = NoEvent
    /\ InitChat
    /\ procs = << >>
    /\ bk = [step |-> 0]

NextPath == PathStart \/ PathSelect \/ PathAnswer \/ PathConfirm

SpecPath == InitPath /\ [][NextPath]_vars

(***************************************************************************)
(* The side effects of a turn with a failing collaborator: the email       *)
(* service raises while the ticket's emails are sent, or                   *)
(* db.save_all_feedback raises.  The client follows the flow from a typed  *)
(* issue to the ticket and the closing feedback.  bk.notify: an email      *)
(* failure happened in the session; bk.fb: the feedback call of the last   *)
(* turn failed.                                                            *)
(***************************************************************************)
MaxEffectTurns == 8

ClosingActions == {"skip_rating", "submit_feedback_text", "skip_feedback_text"}

EffReq(action, value, msg, fail, T) ==
    /\ nturns < MaxEffectTurns
    /\ ChatTurn(action, value, msg, "answer", fail, T, FALSE)
    /\ bk' = [notify |-> bk.notify \/ (action = "confirm_ticket" /\ fail = "notify_raise"),
              fb |-> action \in ClosingActions /\ fail = "feedback_raise"]

EffOtherIssue ==
    cs.state = "awaiting_ticket_type" /\ EffReq("other_issue", "other", None, "ok", T1200)
EffFreeText ==
    cs.state = "awaiting_free_text" /\ EffReq("free_text", None, MSG_SLOW, "ok", T1200)
EffSolutionHelpful ==
    /\ cs.state = "showing_solution"
    /\ cs.solution_feedback = NoFeedback
    /\ EffReq("solution_helpful", <<"1", "tried">>, None, "ok", T1200)
EffSolutionNotResolved ==
    cs.state = "showing_solution"
        /\ EffReq("solution_not_resolved", "no", None, "ok", T1200)
EffPreviewTicket ==
    cs.state = "awaiting_ticket_confirmation"
        /\ EffReq("preview_ticket", "yes", None, "ok", T1200)
EffConfirmTicket ==
    /\ cs.state = "awaiting_ticket_confirmation"
    /\ cs.prepared_ticket.present
    /\ \E fail \in {"ok", "notify_raise"}, T \in ChatTimes :
         EffReq("confirm_ticket", "yes", None, fail, T)
EffSubmitRating ==
    /\ cs.state = "end_rating"
    /\ \E v \in {"5", "9"} : EffReq("submit_rating", v, None, "ok", T1200)
EffClose ==
    /\ cs.state \in {"end_rating", "end_feedback_text"}
    /\ \E a \in ClosingActions, fail \in {"ok", "feedback_raise"} :
         EffReq(a, "skip", IF a = "submit_feedback_text" THEN MSG_SLOW ELSE None,
                fail, T1200)

InitEffects ==
    /\ tickets = << >>
    /\ techs = ChatTechs
    /\ rules = SeedRules
    /\ sla = SeedSla
    /\ clock = 1
    /\ assign_log = [i \in TechIds |-> NoTime]
    /\ ev = NoEvent
    /\ cs = StartSession
    /\ resp = StartResponse
    /\ turn = [NoTurn EXCEPT !.action = "start", !.prev_state = "initial",
                             !.status = 200]
    /\ nturns = 0
    /\ feedback = << >>
    /\ procs = << >>
    /\ bk = [notify |-> FALSE, fb |-> FALSE]

NextEffects ==
    \/ EffOtherIssue
    \/ EffFreeText
    \/ EffSolutionHelpful
    \/ EffSolutionNotResolved
    \/ EffPreviewTicket
    \/ EffConfirmTicket
    \/ EffSubmitRating
    \/ EffClose

SpecEffects == InitEffects /\ [][NextEffects]_vars

(***************************************************************************)
(* Two /api/chat requests with the same (user id, session id) key served   *)
(* at the same time.  chat() looks the session dictionary up in the        *)
(* module-level conversation_states and hands that one object to the       *)
(* handler; there is no lock, so the handlers' writes to the dictionary    *)
(* interleave statement by statement.                                      *)
(***************************************************************************)
Procs == 1..2

RaceRequests ==
    {[action |-> "start", value |-> None],
     [action |-> "select_smart_category", value |-> SC_NET],
     [action |-> "select_smart_category", value |-> SC_OS],
     [action |-> "select_category", value |-> CAT_HW]}

\* the number of statements of a handler that write the session
RaceLen(action) == IF action = "start" THEN 2 ELSE 3

\* sessions a client reaches one request at a time
RaceSessions ==
    LET s1 == handle_action("select_ticket_type", "Incident", None,
                            StartSession, "answer", 1).cs
        s2 == handle_action("select_smart_category", SC_NET, None,
                            s1, "answer", 1).cs
    IN {s1, s2}

RaceAdvance(p) ==
    /\ procs' = [procs EXCEPT ![p] = [@ EXCEPT !.pc = @ + 1]]
    /\ UNCHANGED <<tickets, techs, rules, sla, clock, assign_log, ev,
                   resp, turn, nturns, feedback, bk>>

\* conversation_state.clear(); conversation_state.update(create_initial_state())
\* and then conversation_state['state'] = STATE_AWAITING_TICKET_TYPE
RaceStart(p) ==
    /\ procs[p].action = "start"
    /\ procs[p].pc < RaceLen("start")
    /\ cs' = IF procs[p].pc = 0 THEN create_initial_state
             ELSE [cs EXCEPT !.state = "awaiting_ticket_type"]
    /\ RaceAdvance(p)

\* the three writes of _handle_select_smart_category, in the code's order
RaceSelectSmartCategory(p) ==
    /\ procs[p].action = "select_smart_category"
    /\ procs[p].pc < RaceLen("select_smart_category")
    /\ cs' = IF procs[p].pc = 0 THEN [cs EXCEPT !.smart_category = procs[p].value]
             ELSE IF procs[p].pc = 1 THEN Push(cs, "smart_category", procs[p].value)
             ELSE [cs EXCEPT !.state = "awaiting_category"]
    /\ RaceAdvance(p)

\* the three writes of _handle_select_category, in the code's order
RaceSelectCategory(p) ==
    /\ procs[p].action = "select_category"
    /\ procs[p].pc < RaceLen("select_category")
    /\ cs' = IF procs[p].pc = 0 THEN [cs EXCEPT !.category = procs[p].value]
             ELSE IF procs[p].pc = 1 THEN Push(cs, "category", procs[p].value)
             ELSE [cs EXCEPT !.state = "awaiting_type"]
    /\ RaceAdvance(p)

InitRace ==
    /\ tickets = << >>
    /\ techs = ChatTechs
    /\ rules = SeedRules
    /\ sla = SeedSla
    /\ clock = 1
    /\ assign_log = [i \in TechIds |-> NoTime]
    /\ ev = NoEvent
    /\ cs \in RaceSessions
    /\ resp = StartResponse
    /\ turn = NoTurn
    /\ nturns = 0
    /\ feedback = << >>
    /\ \E r1 \in RaceRequests, r2 \in RaceRequests :
         procs = [p \in Procs |->
                    [action |-> IF p = 1 THEN r1.action ELSE r2.action,
                     value |-> IF p = 1 THEN r1.value ELSE r2.value,
                     pc |-> 0]]
    /\ bk = [base |-> cs]

NextRace ==
    \/ \E p \in Procs : RaceStart(p)
    \/ \E p \in Procs : RaceSelectSmartCategory(p)
    \/ \E p \in Procs : RaceSelectCategory(p)

SpecRace == InitRace /\ [][NextRace]_vars

(***************************************************************************)
(* Free-text turns of one session with every outcome of the fallback       *)
(* agent: an answer, a clarification, an escalation, an exception, and a   *)
(* run that ends without a final response (an empty result).  bk records   *)
(* the agent outcome of the last free-text turn.                           *)
(***************************************************************************)
MaxFreeTextTurns == 5
FreeTextOutcomes == {"answer", "clarify", "escalate", "raise", "empty"}
FreeTextStates == {"awaiting_free_text", "showing_solution",
                   "awaiting_ticket_confirmation"}

FtReq(action, value, msg, llm) ==
    /\ nturns < MaxFreeTextTurns
    /\ ChatTurn(action, value, msg, llm, "ok", T1200, FALSE)
    /\ bk' = [free |-> action = "free_text", llm |-> llm, msg |-> msg,
              from |-> cs.state, fresh |-> cs.agent_state.state = None,
              calls |-> IF action = "free_text"
                        THEN free_text_calls(msg, cs, llm, Len(tickets) + 1)
                        ELSE << >>]

FtStart == cs.state # "awaiting_ticket_type" /\ FtReq("start", None, None, "answer")
FtOtherIssue ==
    cs.state = "awaiting_ticket_type" /\ FtReq("other_issue", "other", None, "answer")
FtFreeText ==
    /\ cs.state \in FreeTextStates
    /\ \E msg \in {MSG_SLOW, MSG_YES, LONG_MSG}, llm \in FreeTextOutcomes :
         FtReq("free_text", None, msg, llm)

InitFreeText ==
    /\ tickets = << >>
    /\ techs = ChatTechs
    /\ rules = SeedRules
    /\ sla = SeedSla
    /\ clock = 1
    /\ assign_log = [i \in TechIds |-> NoTime]
    /\ ev = NoEvent
    /\ cs = StartSession
    /\ resp = StartResponse
    /\ turn = NoTurn
    /\ nturns = 0
    /\ feedback = << >>
    /\ procs = << >>
    /\ bk = [free |-> FALSE, llm |-> "answer", msg |-> None, from |-> None,
             fresh |-> TRUE, calls |-> << >>]

NextFreeText == FtStart \/ FtOtherIssue \/ FtFreeText

SpecFreeText == InitFreeText /\ [][NextFreeText]_vars

(***************************************************************************)
(* One client that walks the incident and the service-request menus by the *)
(* buttons it is shown, going back and starting over at will.  bk.menus    *)
(* holds, for every entry of the navigation path, the menu the client was  *)
(* shown right after the selection that pushed the entry; bk.back,         *)
(* bk.before and bk.expect describe the last turn.                         *)
(***************************************************************************)
MaxNavTurns == 6
NavActions ==
    {"select_ticket_type", "select_smart_category", "select_category",
     "select_type", "select_item", "select_issue", "other_issue",
     "solution_not_resolved", "select_request_category", "select_hardware_item",
     "select_hardware_brand", "select_software_action", "select_software_item",
     "select_access_type", "select_folder_permission", "confirm_internet_access"}

MenuOf(r) == [state |-> r.state, buttons |-> r.buttons]
NoMenu == [state |-> None, buttons |-> {}]

\* the menus of the path after a turn that left the path `nav` and showed r
MenusAfter(menus, action, nav, r) ==
    IF action = "select_ticket_type" /\ Len(nav) = 1 THEN <<MenuOf(r)>>
    ELSE IF Len(nav) <= Len(menus) THEN SubSeq(menus, 1, Len(nav))
    ELSE menus \o [i \in 1..(Len(nav) - Len(menus)) |-> MenuOf(r)]

NavReq(action, value) ==
    /\ nturns < MaxNavTurns
    /\ ChatTurn(action, value, None, "answer", "ok", T1200, FALSE)
    /\ bk' = [back |-> action = "go_back",
              before |-> cs.navigation_stack,
              expect |-> IF Len(cs.navigation_stack) > 1
                         THEN bk.menus[Len(cs.navigation_stack) - 1] ELSE NoMenu,
              menus |-> MenusAfter(bk.menus, action, cs'.navigation_stack, resp')]

NavSelect == \E b \in resp.buttons : b[1] \in NavActions /\ NavReq(b[1], b[2])
NavGoBack == \E b \in resp.buttons : b[1] = "go_back" /\ NavReq("go_back", b[2])
NavStart == cs.state # "awaiting_ticket_type" /\ NavReq("start", None)

InitNav ==
    /\ tickets = << >>
    /\ techs = ChatTechs
    /\ rules = SeedRules
    /\ sla = SeedSla
    /\ clock = 1
    /\ assign_log = [i \in TechIds |-> NoTime]
    /\ ev = NoEvent
    /\ cs = StartSession
    /\ resp = StartResponse
    /\ turn = NoTurn
    /\ nturns = 0
    /\ feedback = << >>
    /\ procs = << >>
    /\ bk = [back |-> FALSE, before |-> << >>, expect |-> NoMenu, menus |-> << >>]

NextNav == NavSelect \/ NavGoBack \/ NavStart

SpecNav == InitNav /\ [][NextNav]_vars

(***************************************************************************)
(* Sequential creations alone, with every active technician on the         *)
(* overnight shift at every creation and every combination of current      *)
(* loads (assigned_tickets) in the technicians table.                      *)
(***************************************************************************)
MaxLoad == 2
RobinTimes == {T1900, T2330, T0200}
RobinFailModes == {"ok", "update_raise", "stats_raise"}
RobinTechTables ==
    { [i \in TechIds |-> [TechRow(TRUE, T1900, T0400) EXCEPT !.assigned_tickets = l[i]]] :
          l \in [TechIds -> 0..MaxLoad] }

RobinCreateTicket ==
    /\ \E T \in RobinTimes, fail \in RobinFailModes : CreateTicketWith({}, None, T, fail)
    /\ UNCHANGED <<chatVars, procs, bk>>

InitRobin ==
    /\ tickets = << >>
    /\ techs \in RobinTechTables
    /\ rules = SeedRules
    /\ sla = SeedSla
    /\ clock = 1
    /\ assign_log = [i \in TechIds |-> NoTime]
    /\ ev = NoEvent
    /\ IdleChat
    /\ IdleProcs

SpecRobin == InitRobin /\ [][RobinCreateTicket]_vars

(***************************************************************************)
(* Flows that create tickets and persist feedback: tickets come from       *)
(* confirm_ticket and from the fallback agent's escalation tool.  A flow   *)
(* runs from one start to the next; bk.made holds the ids of the tickets   *)
(* created in the current flow.                                            *)
(***************************************************************************)
MaxTicketTurns == 5

TkReq(action, value, msg, llm) ==
    /\ nturns < MaxTicketTurns
    /\ ChatTurn(action, value, msg, llm, "ok", T1200, FALSE)
    /\ bk' = [made |-> (IF action = "start" THEN {} ELSE bk.made)
                           \cup ((Len(tickets) + 1)..Len(tickets'))]

TkStart == cs.state # "awaiting_ticket_type" /\ TkReq("start", None, None, "answer")
TkFreeText ==
    \E msg \in {MSG_SLOW, MSG_YES}, llm \in {"answer", "escalate", "tool_id"} :
        TkReq("free_text", None, msg, llm)
TkConfirmTicket == TkReq("confirm_ticket", "yes", None, "answer")
TkSubmitRating == TkReq("submit_rating", "5", None, "answer")
TkSkipFeedbackText == TkReq("skip_feedback_text", "skip", None, "answer")

InitTickets ==
    /\ tickets = << >>
    /\ techs = ChatTechs
    /\ rules = SeedRules
    /\ sla = SeedSla
    /\ clock = 1
    /\ assign_log = [i \in TechIds |-> NoTime]
    /\ ev = NoEvent
    /\ cs = StartSession
    /\ resp = StartResponse
    /\ turn = NoTurn
    /\ nturns = 0
    /\ feedback = << >>
    /\ procs = << >>
    /\ bk = [made |-> {}]

NextTickets ==
    \/ TkStart
    \/ TkFreeText
    \/ TkConfirmTicket
    \/ TkSubmitRating
    \/ TkSkipFeedbackText

SpecTickets == InitTickets /\ [][NextTickets]_vars

(***************************************************************************)
(* A ticket draft and what follows it: the session previews a ticket, then *)
(* selects again, types an issue or goes back, and confirms.  bk.since:    *)
(* the actions served since the last preview_ticket.                       *)
(***************************************************************************)
MaxDraftTurns == 4

DraftReq(action, value, msg) ==
    /\ nturns < MaxDraftTurns
    /\ ChatTurn(action, value, msg, "answer", "ok", T1200, FALSE)
    /\ bk' = [since |-> IF action = "preview_ticket" THEN {}
                        ELSE bk.since \cup {action}]

DraftSelectSmartCategory ==
    \E v \in {SC_NET, SC_OS} : DraftReq("select_smart_category", v, None)
DraftFreeText == DraftReq("free_text", None, MSG_SLOW)
DraftGoBack == DraftReq("go_back", "back", None)
DraftPreviewTicket == DraftReq("preview_ticket", "yes", None)
DraftConfirmTicket == DraftReq("confirm_ticket", "yes", None)

InitDraft ==
    /\ tickets = << >>
    /\ techs = ChatTechs
    /\ rules = SeedRules
    /\ sla = SeedSla
    /\ clock = 1
    /\ assign_log = [i \in TechIds |-> NoTime]
    /\ ev = NoEvent
    /\ cs = StartSession
    /\ resp = StartResponse
    /\ turn = [NoTurn EXCEPT !.action = "start", !.prev_state = "initial",
                             !.status = 200]
    /\ nturns = 0
    /\ feedback = << >>
    /\ procs = << >>
    /\ bk = [since |-> {}]

NextDraft ==
    \/ DraftSelectSmartCategory
    \/ DraftFreeText
    \/ DraftGoBack
    \/ DraftPreviewTicket
    \/ DraftConfirmTicket

SpecDraft == InitDraft /\ [][NextDraft]_vars

(***************************************************************************)
(* Two create_ticket calls served at the same time (two request threads).  *)
(* Each statement of create_ticket and auto_assign_ticket is a transaction *)
(* of its own (execute_one / execute_query commit per statement), so the   *)
(* calls interleave statement by statement.                                *)
(***************************************************************************)
ConcTimes == {T2330, T1200}

NewProc(T) == [pc |-> "insert", id |-> 0, tech |-> NoTech, assigned |-> FALSE, T |-> T]

\* INSERT INTO tickets ... RETURNING *
ConcInsert(p) ==
    /\ procs[p].pc = "insert"
    /\ Len(tickets) < MaxTickets
    /\ tickets' = Append(tickets,
                         NewTicketRow(tickets, sla, clock, 0, "P3", None, "conc"))
    /\ procs' = [procs EXCEPT ![p] = [@ EXCEPT !.pc = "select",
                                               !.id = Len(tickets) + 1]]
    /\ clock' = clock + 1
    /\ UNCHANGED <<techs, rules, sla, assign_log, ev, chatVars, bk>>

\* tech = self.get_on_shift_technician_round_robin()
ConcSelect(p) ==
    /\ procs[p].pc = "select"
    /\ \E tech \in {get_on_shift_technician_round_robin(tickets, techs, procs[p].T)} :
         procs' = [procs EXCEPT ![p] = [@ EXCEPT
                      !.pc = IF tech = NoTech THEN "done" ELSE "update",
                      !.tech = tech]]
    /\ clock' = clock + 1
    /\ UNCHANGED <<tickets, techs, rules, sla, assign_log, ev, chatVars, bk>>

\* UPDATE tickets SET assigned_to_id ...; the statement may fail
ConcUpdate(p) ==
    /\ procs[p].pc = "update"
    /\ \E ok \in BOOLEAN :
         IF ok
         THEN /\ tickets' = AssignUpdate(tickets, procs[p].id, procs[p].tech, clock)
              /\ assign_log' = [assign_log EXCEPT ![procs[p].tech] = clock]
              /\ procs' = [procs EXCEPT ![p] = [@ EXCEPT !.pc = "stats",
                                                         !.assigned = TRUE]]
         ELSE /\ procs' = [procs EXCEPT ![p] = [@ EXCEPT !.pc = "done"]]
              /\ UNCHANGED <<tickets, assign_log>>
    /\ clock' = clock + 1
    /\ UNCHANGED <<techs, rules, sla, ev, chatVars, bk>>

\* self.increment_technician_stats(tech['id'], assigned=1)
ConcStats(p) ==
    /\ procs[p].pc = "stats"
    /\ techs' = increment_technician_stats(techs, procs[p].tech)
    /\ procs' = [procs EXCEPT ![p] = [@ EXCEPT !.pc = "done"]]
    /\ clock' = clock + 1
    /\ UNCHANGED <<tickets, rules, sla, assign_log, ev, chatVars, bk>>

InitConc ==
    /\ tickets = << >>
    /\ techs \in TechTables
    /\ rules = SeedRules
    /\ sla = SeedSla
    /\ clock = 1
    /\ assign_log = [i \in TechIds |-> NoTime]
    /\ ev = NoEvent
    /\ IdleChat
    /\ \E T \in ConcTimes : procs = [p \in Procs |-> NewProc(T)]
    /\ bk = << >>

NextConc ==
    \/ \E p \in Procs : ConcInsert(p)
    \/ \E p \in Procs : ConcSelect(p)
    \/ \E p \in Procs : ConcUpdate(p)
    \/ \E p \in Procs : ConcStats(p)

SpecConc == InitConc /\ [][NextConc]_vars

ClaimedBefore(log, i, j) ==
    \/ log[i] = NoTime /\ log[j] # NoTime
    \/ log[i] = NoTime /\ log[j] = NoTime /\ i <= j
    \/ log[i] # NoTime /\ log[j] # NoTime /\ (log[i] < log[j] \/ (log[i] = log[j] /\ i <= j))

ClaimedPick(C, log) ==
    IF C = {} THEN NoTech
    ELSE CHOOSE i \in C : \A j \in C : ClaimedBefore(log, i, j)

\* C5: the selection of auto-assignment returns, among the technicians on
\* shift, the one whose most recent assignment is the oldest, a technician
\* never assigned first and ties by the smaller id, in every ledger state.
C5_LeastRecentlyAssigned ==
    (ev.op = "create" /\ ev.selected) =>
        ev.picked = ClaimedPick(ev.cands, ev.log)

\* the shift test of the specification
ClaimedOnShift(t, T) ==
    /\ t.active_status
    /\ t.shift_start # NoTime
    /\ t.shift_end # NoTime
    /\ IF t.shift_start < t.shift_end
       THEN t.shift_start <= T /\ T < t.shift_end
       ELSE IF t.shift_start > t.shift_end
       THEN ~(t.shift_end <= T /\ T < t.shift_start)
       ELSE FALSE

\* C6: the candidates of a selection at IST time T are exactly the active
\* technicians whose shift covers T, an overnight shift wrapping midnight;
\* the technician selected is one of them, and one is selected whenever
\* there is any.  A (19:00, 04:00) shift covers 23:30 and 02:00, not 12:00.
C6_CandidatesAreOnShift ==
    /\ (ev.op = "create" /\ ev.selected) =>
         /\ ev.cands = { i \in TechIds : ClaimedOnShift(techs[i], ev.T) }
         /\ (ev.cands = {}) = (ev.picked = NoTech)
         /\ ev.picked # NoTech => ev.picked \in ev.cands
    /\ \A i \in TechIds :
         (techs[i].active_status /\ techs[i].shift_start = T1900
            /\ techs[i].shift_end = T0400) =>
              /\ OnShift(techs[i], T2330)
              /\ OnShift(techs[i], T0200)
              /\ ~OnShift(techs[i], T1200)

\* a selection at 04:00 with an overnight technician whose shift ends then
\* and a selection at 02:00 that picked an overnight technician
C6_Witness ==
    /\ ev.op = "create"
    /\ ev.selected
    /\ \E i \in TechIds :
         /\ techs[i].shift_start = T1900
         /\ techs[i].active_status
         /\ \/ ev.T = T0400 /\ i \notin ev.cands
            \/ ev.T = T0200 /\ ev.picked = i

\* C7: of two concurrent ticket creations the second selection sees the
\* assignment the first one wrote: with at least two technicians on shift
\* the two tickets are never both routed to the same technician.
C7_ConcurrentCreationsRoutedApart ==
    (/\ Len(procs) = 2
     /\ \A p \in Procs : procs[p].pc = "done" /\ procs[p].assigned
     /\ Cardinality(Candidates(techs, procs[1].T)) >= 2) =>
        tickets[procs[1].id].assigned_to_id # tickets[procs[2].id].assigned_to_id

\* the rows the last turn added to the feedback tables
LastFeedbackRows ==
    { feedback[k] : k \in (Len(feedback) - turn.feedback_saved + 1)..Len(feedback) }

\* C9: after a solution was shown, solution_not_resolved followed by
\* decline_ticket leaves the session in state completed, with no ticket row
\* created and no assignment made; feedback (a rating, a comment or both)
\* submitted later in that session is saved with a null ticket id and the
\* session id.
C9_DeclineThenFeedbackUnlinked ==
    /\ (turn.action = "decline_ticket" /\ turn.declined) =>
          /\ cs.state = "completed"
          /\ turn.created = 0
          /\ ev.op = "none"
    /\ (/\ turn.declined
        /\ turn.action \in {"skip_rating", "submit_feedback_text", "skip_feedback_text"}
        /\ turn.status = 200
        /\ (cs.end_rating # NoRating \/ cs.feedback_text \notin {None, ""})) =>
          /\ \E row \in LastFeedbackRows : row.kind = "ticket"
          /\ \A row \in LastFeedbackRows :
                row.ticket_id = 0 /\ row.session_id = SESSION

\* the session after start and the selections sel[1..i], with no go_back
RECURSIVE Straight(_, _)
Straight(sel, i) ==
    IF i = 0 THEN _handle_start(create_initial_state).cs
    ELSE handle_action(sel[i][1], sel[i][2], None, Straight(sel, i - 1),
                       "answer", 1).cs

\* C10: for every path of the incident taxonomy and every N up to its
\* length, N presses of go_back followed by the replay of the last N
\* selections give, on preview_ticket, the draft (category, subject,
\* description) of the path walked without going back; go_back creates no
\* ticket and saves no feedback.
C10_BackAndReplaySameDraft ==
    /\ bk.phase = "previewed" =>
         cs.prepared_ticket = _handle_preview_ticket(Straight(bk.sel, Len(bk.sel))).cs.prepared_ticket
    /\ turn.action = "go_back" =>
         turn.created = 0 /\ turn.feedback_saved = 0
    /\ tickets = << >>
    /\ feedback = << >>

\* the preview after the whole six-level path was walked back and replayed
C10_Witness ==
    /\ bk.phase = "previewed"
    /\ bk.n = 6
    /\ bk.k = 6
    /\ cs.prepared_ticket.present
    /\ cs.prepared_ticket.category = SC_NET

(***************************************************************************)
(* Properties of the chat endpoint.                                        *)
(***************************************************************************)

\* C1: a turn of /api/chat creates a ticket only if its action is
\* confirm_ticket, taken in state awaiting_ticket_confirmation after
\* preview_ticket stored a draft; no other action, state or collaborator
\* result (the fallback agent included) creates one.
C1_TicketOnlyOnConfirmedDraft ==
    turn.created > 0 =>
        /\ turn.action = "confirm_ticket"
        /\ turn.prev_state = "awaiting_ticket_confirmation"
        /\ turn.had_draft

\* the states the specification lists for a session
ListedStates ==
    {"initial", "awaiting_ticket_type", "awaiting_smart_category",
     "awaiting_category", "awaiting_type", "awaiting_item", "awaiting_issue",
     "showing_solution", "awaiting_free_text", "awaiting_ticket_confirmation",
     "ticket_created", "end_rating", "end_feedback_text", "completed",
     "request_category", "request_hardware_type", "request_hardware_brand",
     "request_software_action", "request_software_type", "request_access_type",
     "request_internet_access", "request_shared_folder_path",
     "request_shared_folder_permission", "request_vpn_reason",
     "request_justification", "request_preview", "request_complete",
     "manager_approval"}

\* C2 as stated: after each step the session's state is one of the listed
\* states.
C2_StateInListedSet == cs.state \in ListedStates

\* C2: after each step the session's state is one of the listed states, or
\* feedback_complete (the end of the feedback stage), or manager_approved
\* (after check_approval).
C2_StateInClosedSet ==
    cs.state \in ListedStates \cup {"feedback_complete", "manager_approved"}

\* a session that finished the feedback stage
C2_Witness ==
    /\ turn.action \in {"skip_rating", "submit_feedback_text", "skip_feedback_text"}
    /\ cs.state = "feedback_complete"

\* C4: if create_ticket returns nothing or raises during confirm_ticket, then
\* afterwards the session is still in awaiting_ticket_confirmation, the
\* response has success false and offers retry or start over, and no ticket
\* id is stored or reported.
C4_FailedCreateKeepsConfirmation ==
    (/\ turn.action = "confirm_ticket"
     /\ turn.prev_state = "awaiting_ticket_confirmation"
     /\ ev.op = "create"
     /\ (ev.raised \/ ev.result.id = 0))
    => /\ cs.state = "awaiting_ticket_confirmation"
       /\ resp.success = FALSE
       /\ \E b \in resp.buttons : b[1] \in {"preview_ticket", "start"}
       /\ cs.ticket_id = 0
       /\ resp.ticket_id = 0

\* the ways the assignment step of create_ticket can raise
AssignFailures == {"select_raise", "update_raise", "stats_raise", "log_raise"}

\* C8: when no active technician is on shift, or the assignment step raises,
\* create_ticket still returns the created ticket: the ticket exists
\* unassigned with status Open, no technician's counter changes, and the
\* chat turn reports the ticket id as a success.
C8_UnassignedTicketStillReturned ==
    (/\ ev.op = "create"
     /\ ev.fail \in AssignFailures \cup {"ok"}
     /\ (ev.cands = {} \/ ev.fail \in AssignFailures))
    => /\ ev.result.id = ev.id
       /\ ev.id <= Len(tickets)
       /\ tickets[ev.id].assigned_to_id = NoTech
       /\ tickets[ev.id].status = "Open"
       /\ Counters(techs) = ev.counters
       /\ (turn.action = "confirm_ticket" /\ resp.status = 200)
             => (resp.success /\ resp.ticket_id = ev.id)


\* C11: typed text (a free_text action, or a message without an action)
\* received in a state outside the free-text states leaves the session as
\* it was and answers with the prompt of that state: no search, no
\* fallback, no reset.
C11_TextOutsideAllowListIsNoOp ==
    [][(/\ nturns' = nturns + 1
        /\ turn'.textual
        /\ cs.state \notin request_text_states)
       => (/\ cs' = cs
           /\ resp'.status = 200 => resp'.state = cs.state)]_vars


\* C12: every request handled by the dispatcher, whatever its action and
\* value, gets a response dictionary from it (the dispatcher never returns
\* nothing, which ends the turn in a server error) and leaves the session
\* in a defined state.
C12_DispatcherAlwaysAnswers ==
    turn.action \notin {None, "reset"}
        => /\ turn.returned
           /\ cs.state \in ListedStates \cup {"feedback_complete", "manager_approved"}


UnknownActionTurn == turn.action \notin KnownActions \cup {None, "reset"}

\* C13 as stated: an action outside the dispatcher's vocabulary never
\* raises, leaves the session in state initial and returns the start
\* response.
C13_UnknownActionToInitial ==
    UnknownActionTurn
        => /\ turn.returned
           /\ cs.state = "initial"
           /\ turn.status = 200 => resp = StartResponse

\* C13: an action outside the dispatcher's vocabulary never raises; it
\* resets the session to its initial values, leaves it in state
\* awaiting_ticket_type (the state of the start menu) and returns the start
\* response.
C13_UnknownActionToStart ==
    UnknownActionTurn
        => /\ turn.returned
           /\ cs = StartSession
           /\ turn.status = 200 => resp = StartResponse

\* an unknown action received in the middle of a flow and answered
C13_Witness ==
    /\ UnknownActionTurn
    /\ turn.prev_state \notin {"initial", "awaiting_ticket_type"}
    /\ turn.status = 200


\* C14: an exception raised by a handler is caught by the dispatcher, which
\* answers success = false with a start-over button; a start or restart
\* that follows on the same session is answered with the start response and
\* leaves the session in awaiting_ticket_type with every flow field cleared.
C14_HandlerErrorCaughtAndRecoverable ==
    /\ turn.raised
         => /\ turn.returned
            /\ turn.status = 200
            /\ ~resp.success
            /\ <<"restart", "restart">> \in resp.buttons
    /\ (turn.prev_raised /\ turn.action \in {"start", "restart"})
         => /\ turn.returned /\ ~turn.raised
            /\ turn.status = 200
            /\ resp = StartResponse
            /\ cs = StartSession

\* a start that follows a handler error in the middle of a flow
C14_Witness ==
    /\ turn.prev_raised
    /\ turn.action = "start"
    /\ turn.prev_state \notin {"initial", "awaiting_ticket_type"}


\* the text matched a database rule (its keyword is in the text and the
\* rule is not scoped to another category) or a static keyword
KeywordMatched(rs, text, category) ==
    \/ MatchingRules(rs, text, category) # {}
    \/ (p2_keywords \cup p4_keywords) \cap text # {}

\* C15: for a fixed priority_rules table, determine_priority has a single
\* possible result for every text that matches a database rule or a static
\* keyword; only where nothing matched can two runs differ.
C15_DeterministicWhenMatched ==
    (ev.op = "create" /\ KeywordMatched(rules, ev.text, ev.category))
        => Cardinality(determine_priority(rules, ev.text, ev.category)) = 1


\* the priority keyword matching selects when the static category table is
\* left out: the strongest database rule, the static P2 list over a weaker
\* rule, the static P4 list when no rule was kept; None when it selects
\* nothing
KeywordSelected(rs, text, category) ==
    LET scan == RuleScan(rs, text, category)
    IN  IF scan.priority # None /\ scan.order >= 3 THEN scan.priority
        ELSE IF p2_keywords \cap text # {} THEN "P2"
        ELSE IF scan.priority = None /\ p4_keywords \cap text # {} THEN "P4"
        ELSE scan.priority

\* the priority of the category in the static category table, None without
CategoryDefault(category) ==
    IF category # None /\ category \in DOMAIN smart_category_priorities
    THEN smart_category_priorities[category]
    ELSE None

StrongerOf(p, q) == IF priority_order(q) > priority_order(p) THEN q ELSE p

SlaHours(tbl, p) ==
    IF get_sla_by_priority(tbl, p) # NoTime THEN get_sla_by_priority(tbl, p)
    ELSE DefaultSlaHours

\* C17: for every ticket the stored sla_deadline minus the stored
\* created_at is exactly the sla_config duration of the ticket's priority
\* (24 hours without a row), whatever time passes between the steps of
\* create_ticket.
C17_DeadlineIsCreationPlusSla ==
    \A k \in 1..Len(tickets) :
        tickets[k].sla_deadline - tickets[k].created_at
            = SlaHours(sla, tickets[k].priority)


\* the positions of the solution_feedback rows the last turn wrote
LastSolutionRows ==
    { k \in (Len(feedback) - turn.feedback_saved + 1)..Len(feedback) :
        feedback[k].kind = "solution" }

\* C18: the tag the session holds for an index is the tag of the latest
\* submission for that index, so a submission for one index never changes
\* the tag of another; and a turn that persists feedback writes exactly one
\* solution_feedback row per index tagged, carrying that latest tag (two
\* rows after tried, helpful for index 1 and tried, not_helpful for
\* index 2).
C18_FeedbackIndependentPerIndex ==
    /\ DOMAIN cs.solution_feedback = DOMAIN bk.tags
    /\ \A i \in DOMAIN bk.tags : cs.solution_feedback[i] = bk.tags[i][2]
    /\ turn.feedback_saved > 0 =>
          /\ Cardinality(LastSolutionRows) = Cardinality(DOMAIN bk.tags)
          /\ \A i \in DOMAIN bk.tags :
                \E k \in LastSolutionRows :
                    /\ feedback[k].index = i
                    /\ feedback[k].type = bk.tags[i][2]

\* tried then helpful for step 1 and tried then not_helpful for step 2 of
\* a shown solution, then persisted as two rows
C18_Witness ==
    /\ cs.solutions_list # << >>
    /\ DOMAIN bk.tags = {1, 2}
    /\ bk.tags[1] = <<"tried", "helpful">>
    /\ bk.tags[2] = <<"tried", "not_helpful">>
    /\ turn.feedback_saved = 2
    /\ Cardinality(LastSolutionRows) = 2


\* the session holds feedback to persist
Accumulated(c) ==
    \/ DOMAIN c.solution_feedback # {}
    \/ c.end_rating # NoRating
    \/ c.feedback_text \notin {None, ""}

\* C19: within one flow the accumulated feedback is written exactly once,
\* by the turn that ends the flow: never by a turn that leaves the flow
\* open, and not again when skip_rating, submit_feedback_text or
\* skip_feedback_text is repeated afterwards.
C19_FeedbackPersistedOncePerFlow ==
    /\ bk.saves <= 1
    /\ turn.feedback_saved > 0 => FlowEnded
    /\ (FlowEnded /\ Accumulated(cs)) => bk.saves >= 1

\* the rows written since the flow began
FlowRows == { feedback[k] : k \in (bk.base + 1)..Len(feedback) }

\* C20: when a flow in which steps of a solution were tagged reaches the
\* state completed without a ticket, by decline_ticket or by end, every
\* tag has been written as a solution_feedback row with the session id and
\* a null ticket id.
C20_FeedbackPersistedWithoutTicket ==
    (/\ turn.action \in {"decline_ticket", "end"}
     /\ cs.state = "completed"
     /\ cs.ticket_id = 0
     /\ DOMAIN bk.tags # {})
        => \A i \in DOMAIN bk.tags :
              \E row \in FlowRows :
                  /\ row.kind = "solution"
                  /\ row.index = i
                  /\ row.type = bk.tags[i][2]
                  /\ row.ticket_id = 0
                  /\ row.session_id = SESSION


\* C21: the requests start, select_ticket_type Incident, the four taxonomy
\* selections, select_issue 0, solution_not_resolved, preview_ticket and
\* confirm_ticket along an existing path create exactly one ticket, at the
\* confirm_ticket; it has a priority and an SLA deadline, and its assignee
\* is null or a technician that was active and on shift when it was
\* created.
C21_IncidentPathCreatesOneTicket ==
    /\ bk.step < Len(PathActions) => tickets = << >>
    /\ bk.step = Len(PathActions) =>
          /\ Len(tickets) = 1
          /\ tickets[1].priority \in Priorities
          /\ tickets[1].sla_deadline # NoTime
          /\ \/ tickets[1].assigned_to_id = NoTech
             \/ /\ tickets[1].assigned_to_id \in TechIds
                /\ ClaimedOnShift(techs[tickets[1].assigned_to_id], ev.T)

\* the flow ended at 04:00, when one technician's overnight shift ends and
\* the other's day shift has not begun: the ticket exists and is unassigned
C21_Witness ==
    /\ bk.step = Len(PathActions)
    /\ Len(tickets) = 1
    /\ ev.T = T0400
    /\ ev.fail = "ok"
    /\ \E i \in TechIds : techs[i].active_status /\ techs[i].shift_end = T0400
    /\ \E i \in TechIds : techs[i].active_status /\ techs[i].shift_start = T0700
    /\ tickets[1].assigned_to_id = NoTech


\* C22: an exception of the email service leaves the created ticket in the
\* table, linked to the session, and the response is the one of a created
\* ticket; an exception of db.save_all_feedback leaves the response the
\* completion response.  Neither ends the turn in an error.
C22_SideEffectsIndependent ==
    /\ (ev.op = "create" /\ ev.fail = "notify_raise") =>
          /\ Len(tickets) = ev.id
          /\ ev.result = tickets[ev.id]
          /\ cs.ticket_id = ev.id
          /\ turn.status = 200
          /\ resp.success
          /\ resp.kind = "ticket_created"
          /\ resp.ticket_id = ev.id
          /\ resp.state = "end_rating"
    /\ bk.fb =>
          /\ turn.status = 200
          /\ resp.success
          /\ resp.kind = "feedback_complete"
          /\ resp.buttons = done_buttons
          /\ cs.state = "feedback_complete"

\* a session whose ticket emails failed and whose feedback call failed
\* afterwards, the ticket being assigned and still in the table
C22_Witness ==
    /\ bk.notify
    /\ bk.fb
    /\ cs.ticket_id # 0
    /\ cs.ticket_id <= Len(tickets)
    /\ tickets[cs.ticket_id].assigned_to_id # NoTech
    /\ cs.end_rating = 5
    /\ turn.feedback_saved = 0

\* the session after request p alone, served to the end, on session c
RaceServed(p, c) ==
    handle_action(procs[p].action, procs[p].value, None, c, "answer", 1).cs

RaceDone == \A p \in Procs : procs[p].pc = RaceLen(procs[p].action)

\* C23: two concurrent actions on the same session key are processed one
\* after the other: once both are served, the session equals the session
\* that one of the two sequential orders of the two actions produces.
C23_ConcurrentTurnsSerialize ==
    RaceDone => cs \in {RaceServed(2, RaceServed(1, bk.base)),
                        RaceServed(1, RaceServed(2, bk.base))}

\* the last turn was a free-text turn in which the fallback agent failed
AgentFailedTurn == bk.free /\ bk.llm \in {"raise", "empty"}

\* C24: a free-text turn in which the fallback agent (and the search behind
\* it) fails by an exception or an empty result ends with success=true,
\* either in showing_solution with a found solution or in
\* awaiting_ticket_confirmation with an offer to create a ticket.
C24_FreeTextFailureDegrades ==
    AgentFailedTurn =>
        /\ resp.status = 200 /\ resp.success
        /\ \/ /\ cs.state = "showing_solution"
              /\ resp.state = "showing_solution"
              /\ cs.bot_solution \notin {None, ""}
           \/ /\ cs.state = "awaiting_ticket_confirmation"
              /\ resp.state = "awaiting_ticket_confirmation"
              /\ <<"preview_ticket", "yes">> \in resp.buttons

TaxonomySelections ==
    {"select_smart_category", "select_category", "select_type", "select_item"}

\* the response has an option that leads to awaiting_free_text
OffersFreeText(r) == r.show_text_input \/ \E b \in r.buttons : b[1] = "other_issue"

\* C25: at every taxonomy level a selection whose lookup finds no further
\* entries is answered successfully with an offer to describe the issue in
\* free text, never with an error or with going back as the only option.
C25_EmptyLookupOffersFreeText ==
    (turn.action \in TaxonomySelections /\ resp.kind = "no_entries") =>
        /\ resp.status = 200 /\ resp.success
        /\ OffersFreeText(resp)

\* the database rules that match the classified text, are unscoped or scoped
\* to the ticket's category, and are of the high tier or above it
HighTier == {"P2", "Critical"}
HighRules == {r \in MatchingRules(rules, ev.text, ev.category) : r.priority \in HighTier}
HighestOf(rs) == IF \E r \in rs : r.priority = "Critical" THEN "Critical" ELSE "P2"

\* C26: when the text matches a database rule of the high tier or above that
\* is unscoped or scoped to the ticket's category, the strongest such rule's
\* priority is the result, whatever the category table and the static
\* keyword lists say; rules scoped to another category do not change the
\* result.
C26_HighRuleReturnedFirst ==
    ev.op = "create" =>
        /\ HighRules # {} => tickets[ev.id].priority = HighestOf(HighRules)
        /\ tickets[ev.id].priority \in
               determine_priority({r \in rules : r.category \in {None, ev.category}},
                                  ev.text, ev.category)

\* C27: in the incident and in the service-request flow, go_back on a path
\* of depth greater than 1 removes exactly the top entry and shows the menu
\* the client saw right after the selection that is now on top, with the
\* stored state naming that menu; on a path of depth 0 or 1 it does what
\* start does.
C27_GoBackShowsMenuOfNewTop ==
    bk.back =>
        IF Len(bk.before) > 1
        THEN /\ cs.navigation_stack = SubSeq(bk.before, 1, Len(bk.before) - 1)
             /\ MenuOf(resp) = bk.expect
             /\ cs.state = bk.expect.state
        ELSE cs = StartSession /\ resp = StartResponse

\* the tickets currently assigned to technician i
AssignedTo(i) == {k \in DOMAIN tickets : tickets[k].assigned_to_id = i}

\* C28: after any sequence of creations, manual assignments and status
\* updates each technician's assigned_tickets counter equals the number of
\* tickets currently assigned to that technician.
C28_CounterMatchesAssignments ==
    \A i \in TechIds : techs[i].assigned_tickets = Cardinality(AssignedTo(i))

\* the technicians of the auto-assignments made so far, in order
IsAssigned(t) == t.assigned_to_id # NoTech
AutoAssignments ==
    LET a == SelectSeq(tickets, IsAssigned)
    IN [k \in 1..Len(a) |-> a[k].assigned_to_id]

\* C29: with all n active technicians on shift and only sequential ticket
\* creations, every window of n consecutive auto-assignments goes to n
\* distinct technicians, whatever the technicians' loads.
C29_RoundRobinWindowsDistinct ==
    \A k \in 1..(Len(AutoAssignments) - NTech + 1) :
        Cardinality({AutoAssignments[j] : j \in k..(k + NTech - 1)}) = NTech

\* the rotation came back to the technician who went first although that
\* technician carries the larger load
C29_Witness ==
    /\ Len(AutoAssignments) > NTech
    /\ AutoAssignments[NTech + 1] = AutoAssignments[1]
    /\ \E i \in TechIds :
         techs[AutoAssignments[1]].assigned_tickets > techs[i].assigned_tickets

FeedbackTypes == {"tried", "not_tried", "helpful", "not_helpful"}
StageTwoTypes == {"helpful", "not_helpful"}

\* C30: the tag recorded for a solution index is one of tried, not_tried,
\* helpful, not_helpful, and a stage-2 tag (helpful, not_helpful) is recorded
\* for an index only if the tag recorded for it immediately before was tried.
C30_TwoStageFeedback ==
    \A i \in DOMAIN cs.solution_feedback :
        /\ cs.solution_feedback[i] \in FeedbackTypes
        /\ cs.solution_feedback[i] \in StageTwoTypes =>
               (i \in DOMAIN bk.tags /\ bk.tags[i][1] = "tried")

ValidRating(r) == r = NoRating \/ (1 <= r /\ r <= 5)

\* C31: the end-of-flow rating stored in the session and the rating of every
\* persisted feedback row is absent or an integer from 1 to 5: a
\* submit_rating with a value outside 1..5 is never stored.
C31_RatingInRange ==
    /\ ValidRating(cs.end_rating)
    /\ \A k \in DOMAIN feedback : ValidRating(feedback[k].rating)

\* the feedback rows persisted by the last turn
LastRows == {feedback[k] : k \in (Len(feedback) - turn.feedback_saved + 1)..Len(feedback)}

\* C32: feedback persisted in a flow in which a ticket was created (by
\* confirm_ticket or by the fallback agent's escalation) carries that
\* ticket's id; feedback persisted in a flow without a ticket carries a
\* null ticket id.
C32_FeedbackCarriesFlowTicket ==
    \A row \in LastRows :
        IF bk.made = {} THEN row.ticket_id = 0 ELSE row.ticket_id \in bk.made

\* C36: within one flow of a session (from one start to the next) at most
\* one ticket is created, also when confirm_ticket arrives more than once
\* and when the fallback agent has already created a ticket.
C36_OneTicketPerFlow == Cardinality(bk.made) <= 1

\* the last turn was a free_text turn taken in awaiting_free_text
FreeTextRouted == bk.free /\ bk.from = "awaiting_free_text"

StatusRank(s) ==
    CASE s = "Open" -> 1 [] s = "In Progress" -> 2 [] s = "Resolved" -> 3
      [] s = "Closed" -> 4 [] OTHER -> 0

\* C34: across creation, auto-assignment, manual assignment and status
\* updates a ticket's status only moves forward in the order Open,
\* In Progress, Resolved, Closed: no step takes a ticket to an earlier status.
C34_StatusOnlyForward ==
    [][\A k \in DOMAIN tickets :
          StatusRank(tickets'[k].status) >= StatusRank(tickets[k].status)]_vars


\* C35: after every /api/chat turn that was answered, the state field of the
\* response equals the state stored in the session, for every action,
\* including selections whose lookup found nothing and handlers that raised.
C35_ResponseStateIsSessionState ==
    (turn.action # None /\ resp.status = 200) => resp.state = cs.state


\* the ticket data a confirmation would submit after a preview computed
\* from the session's selections as they are now
FreshTicketData(c) == ticket_data(_handle_preview_ticket(c).cs)

\* C37: the ticket data submitted by confirm_ticket equals the draft that
\* preview_ticket would compute from the session's selections at the moment
\* of confirmation; a draft prepared before a later go_back, selection or
\* free-text input is never the one submitted.
C37_ConfirmSubmitsCurrentDraft ==
    [][(nturns' # nturns /\ turn'.action = "confirm_ticket")
          => ticket_data(cs) = FreshTicketData(cs)]_vars


Filled(x) == x \notin {None, "", << >>}

\* C39: every ticket-creation request emitted by confirm_ticket carries a
\* non-null, non-empty category, subject and description, in every state
\* from which preview_ticket and confirm_ticket can be invoked, including a
\* session in which no smart category or issue has been selected.
C39_TicketDataFilled ==
    [][(nturns' # nturns /\ turn'.action = "confirm_ticket")
          => /\ Filled(ticket_data(cs).category)
             /\ Filled(ticket_data(cs).subject)
             /\ Filled(ticket_data(cs).description)]_vars


\* C38: whenever a response sets show_text_input, a following turn on the
\* session that carries typed text (a message and no action, or the
\* free_text action) is handled as free_text; it is never replaced by the
\* start action.
C38_TextInputRoutedAsFreeText ==
    [][(resp.show_text_input /\ nturns' # nturns /\ turn'.textual)
          => turn'.action = "free_text"]_vars


\* C40: in the fallback agent's conversation clarification_count never
\* exceeds MAX_CLARIFICATION_ATTEMPTS, for every sequence of user messages
\* and agent outcomes.
C40_ClarificationCountBounded ==
    cs.agent_state.clarification_count <= MAX_CLARIFICATION_ATTEMPTS

====
